---------------------------- MODULE Spec2Model ----------------------------
(***************************************************************************)
(* Clever/mgohttp: the timeout-racing session/response coordinator.        *)
(*                                                                         *)
(* One request served by SessionHandler.ServeHTTP (package mgohttp,        *)
(* session_handler.go) or by MongoSessionInjector.ServeHTTP (package       *)
(* mgosessionpool, sessionpool.go), or by the earlier lazy-timer           *)
(* MongoSessionInjector.ServeHTTP, which runs the handler synchronously on *)
(* the real writer and closes the session from a timer.  The processes are *)
(*   - the coordinator goroutine (ServeHTTP itself),                       *)
(*   - the handler goroutine "h" started by ServeHTTP,                     *)
(*   - goroutines "g1".. that the wrapped handler starts itself,           *)
(*   - the runtime's deadline timer.                                       *)
(* The wrapped handler is an arbitrary program: its calls are drawn        *)
(* nondeterministically from small sets.                                   *)
(***************************************************************************)
EXTENDS Integers, Sequences, FiniteSets, TLC

\* ------------------------------------------------------------------ bounds
\* number of calls the handler goroutine makes before it returns
MaxOps == 3
\* number of accessor invocations each goroutine started by the handler makes
MaxWorkerOps == 1
\* number of concurrent requests sent to an admission-controlled injector
MaxRequests == 3
\* largest configured session limit
MaxLimit == 2
\* number of copies made from the root SessionPool
MaxCopies == 2
\* number of Close calls a SessionPool receives
MaxCloses == 2
\* number of configs passed to a mgohttptest helper
MaxCfgs == 2
\* number of accessor invocations made with a mgohttptest context
MaxCalls == 2
\* number of frames of the call stack getCallerName walks
MaxFrames == 3

\* ------------------------------------------------------- program constants
StatusOK == 200
StatusServiceUnavailable == 503
StatusTeapot == 418
StatusInternalServerError == 500

\* ------------------------------------------------------------ input domains
Impls == {"mgohttp", "mgosessionpool", "lazytimer"}
\* the implementations that race the handler against the deadline
RacingImpls == {"mgohttp", "mgosessionpool"}
\* the injectors that take a semaphore permit before copying a session: the
\* one holding the semaphore itself and the one copying from a SessionPool
AdmImpls == {"semaphore", "sessionpool"}
Requests == 1 .. MaxRequests
Limits == 1 .. MaxLimit
Names == {"db1", "db2"}
\* the database the middleware is configured for
Databases == {"db1"}
Workers == {"g1"}
Procs == {"h"} \cup Workers
HKeys == {"k1"}
HVals == {"a", "b"}
HandlerCodes == {StatusOK, StatusServiceUnavailable}
Chunks == {<<"x">>, <<"y">>}
Durations == {"50ms"}
\* the duration the lazy-timer injector takes from the service configuration
RequestTimeoutDuration == "config.RequestTimeoutDuration"
\* what a context may hold under a database key: nothing, a value that is not
\* a SessionGetter, the accessor of an enclosing middleware, or the accessor
\* of this request
CtxVals == {"none", "other", "outerGetter", "getSession"}
Nil == 0
\* handle returned by the accessor of an enclosing middleware
OuterSession == Nil - 1
NoPanic == "none"

VARIABLES
    impl,        \* which ServeHTTP serves the request
    cfg,         \* the middleware's fields: database, timeout, errorCode
    baseCtx,     \* r.Context() of the incoming request
    cpc,         \* coordinator's position in ServeHTTP
    branch,      \* the select branch taken: "none", "Completed", "TimedOut"
    done,        \* the done channel is closed
    timer,       \* sessionTimer: "unset", "armed", "fired"
    timerDur,    \* duration given to time.NewTimer
    ctimers,     \* lazy-timer injector: the timers time.AfterFunc has made
    sessionTimer,\* lazy-timer injector: the captured variable sessionTimer
    race,        \* which of close(done) and the timer came first, and whether
                 \* the coordinator was then blocked in the select
    tw,          \* the timeoutWriter
    rw,          \* the real http.ResponseWriter: header map and call log
    newSession,  \* the captured variable newSession (Nil or a session id)
    sessionMutex,\* holder of sessionMutex ("free" or a process)
    sess,        \* every session Copy() has returned, with its call counts
    hpc,         \* position of each handler goroutine
    ops,         \* calls made so far by each handler goroutine
    lastCall,    \* the result of the handler's most recent call, when it was a Write
    rets,        \* handles this request's accessor has returned
    nAcc,        \* invocations of this request's accessor
    overlap,     \* two accessor invocations have been in progress at once
    okNames,     \* database names FromContext has found an accessor for
    panicked,    \* NoPanic, or the database name of the panic message
    expect,      \* the handler's calls as a direct ResponseWriter would record them
    trace,       \* the tracing spans of the traced SessionHandler
    adm,         \* the semaphore and the requests of an admission-controlled injector
    pool,        \* the SessionPool objects, their semaphore and their mgo sessions
    th,          \* a run of the mgohttptest helpers
    gcn          \* a run of getCallerName

cfgVars == <<impl, cfg, baseCtx>>
coordVars == <<cpc, branch, done, timer, timerDur, ctimers, sessionTimer, race>>
sessVars == <<newSession, sessionMutex, sess, rets, nAcc, overlap, okNames>>
procVars == <<hpc, ops, lastCall, panicked, expect>>
\* the state of the single request served by the other middlewares
reqVars == <<coordVars, tw, rw, sessVars, procVars, trace>>
\* the state of the entry points that serve no request
libVars == <<pool, th, gcn>>
vars == <<cfgVars, reqVars, adm, libVars>>

\* ------------------------------------------------------- timeoutWriter
EmptyHeader == [k \in HKeys |-> ""]

NewTimeoutWriter ==
    [h |-> EmptyHeader, wbuf |-> <<>>, timedOut |-> FALSE,
     wroteHeader |-> FALSE, code |-> 0]

writeHeader(t, code) == [t EXCEPT !.wroteHeader = TRUE, !.code = code]

WriteHeaderAlways(t, code) == IF t.timedOut THEN t ELSE writeHeader(t, code)

WriteHeaderAfterTimeout(t, code) ==
    IF t.wroteHeader THEN t ELSE writeHeader(t, code)

WriteHeader(t, code) ==
    IF t.timedOut \/ t.wroteHeader THEN t ELSE writeHeader(t, code)

WriteIgnoringTimeout(t, p) ==
    LET t1 == IF ~t.wroteHeader THEN writeHeader(t, StatusOK) ELSE t
    IN  [tw |-> [t1 EXCEPT !.wbuf = @ \o p], n |-> Len(p), err |-> "nil"]

WriteWithoutHeader(t, p) ==
    IF t.timedOut
    THEN [tw |-> t, n |-> 0, err |-> "ErrHandlerTimeout"]
    ELSE [tw |-> [t EXCEPT !.wbuf = @ \o p], n |-> Len(p), err |-> "nil"]

\* Write returns the new writer state with the (n, err) pair of the call
Write(t, p) ==
    IF t.timedOut
    THEN [tw |-> t, n |-> 0, err |-> "ErrHandlerTimeout"]
    ELSE LET t1 == IF ~t.wroteHeader THEN writeHeader(t, StatusOK) ELSE t
         IN  [tw |-> [t1 EXCEPT !.wbuf = @ \o p], n |-> Len(p), err |-> "nil"]

\* tw.Header().Set(k, v): Header() hands out the map itself
HeaderSet(t, k, v) == [t EXCEPT !.h[k] = v]

setTimedOutToggle(t) == [t EXCEPT !.timedOut = ~@]

setTimedOutNoop(t) == t

setTimedOut(t) == [t EXCEPT !.timedOut = TRUE]

\* ------------------------------------------------ the real ResponseWriter
NewResponseWriter == [hdr |-> EmptyHeader, log |-> <<>>]

Call(op, arg, by) == [op |-> op, arg |-> arg, by |-> by]

RealSetHeader(w, k, v, by) ==
    [hdr |-> [w.hdr EXCEPT ![k] = v],
     log |-> Append(w.log, Call("Header", <<k, v>>, by))]

RealWriteHeader(w, code, by) ==
    [w EXCEPT !.log = Append(@, Call("WriteHeader", code, by))]

RealWrite(w, p, by) == [w EXCEPT !.log = Append(@, Call("Write", p, by))]

\* the header entries dst[k] = vv of the copy loop
CopyHeaders(w, h, by) ==
    [hdr |-> [k \in HKeys |-> IF h[k] # "" THEN h[k] ELSE w.hdr[k]],
     log |-> Append(w.log, Call("Header", h, by))]

CopyWithoutWriteHeader(t, w) ==
    [tw |-> t, w |-> RealWrite(CopyHeaders(w, t.h, "coord"), t.wbuf, "coord")]

CopyWithoutDefaultStatus(t, w) ==
    LET w1 == CopyHeaders(w, t.h, "coord")
        w2 == RealWriteHeader(w1, t.code, "coord")
    IN  [tw |-> t, w |-> RealWrite(w2, t.wbuf, "coord")]

CopyStatusFirst(t, w) ==
    LET t1 == IF ~t.wroteHeader THEN [t EXCEPT !.code = StatusOK] ELSE t
        w1 == RealWriteHeader(w, t1.code, "coord")
        w2 == CopyHeaders(w1, t.h, "coord")
    IN  [tw |-> t1, w |-> RealWrite(w2, t1.wbuf, "coord")]

copyToResponseWriter(t, w) ==
    LET t1 == IF ~t.wroteHeader THEN [t EXCEPT !.code = StatusOK] ELSE t
        w1 == CopyHeaders(w, t.h, "coord")
        w2 == RealWriteHeader(w1, t1.code, "coord")
    IN  [tw |-> t1, w |-> RealWrite(w2, t1.wbuf, "coord")]

\* what the client is sent, read off the calls made on the real writer
WriteHeaderCalls(w) == {i \in DOMAIN w.log : w.log[i].op = "WriteHeader"}
WriteCalls(w) == {i \in DOMAIN w.log : w.log[i].op = "Write"}

RECURSIVE BodyOf(_)
BodyOf(log) ==
    IF log = <<>> THEN <<>>
    ELSE LET rest == BodyOf(Tail(log))
         IN  IF Head(log).op = "Write" THEN Head(log).arg \o rest ELSE rest

\* net/http sends the status of the first WriteHeader, or 200 on a Write
\* that comes first; 0 when nothing was sent
StatusOf(w) ==
    LET sent == {i \in DOMAIN w.log : w.log[i].op \in {"WriteHeader", "Write"}}
    IN  IF sent = {} THEN 0
        ELSE LET first == CHOOSE i \in sent : \A j \in sent : i <= j
             IN  IF w.log[first].op = "WriteHeader" THEN w.log[first].arg
                 ELSE StatusOK


\* --------------------------------------------------- context and accessor
NewContext(ctx, dbName, getter) == [ctx EXCEPT ![dbName] = getter]

\* the context the wrapped handler is served with
HandlerCtx == NewContext(baseCtx, cfg.database, "getSession")

IsGetterLoose(v) == v # "none"

\* the type assertion getSessionBlob.(SessionGetter)
IsGetter(v) == v \in {"getSession", "outerGetter"}

DirectWriter(i) == "w"

\* the writer handed to the wrapped handler: the shim where the handler is
\* raced against the deadline, the real writer in the lazy-timer injector
HandlerWriter(i) == IF i \in RacingImpls THEN "tw" ELSE "w"

NeverHasSession(s) == FALSE

\* the shortcircuit test of getSession
HasSession(s) == s # Nil

NewSess(late) == [sst |-> 0, dur |-> "", closed |-> 0, late |-> late]

SessionCopy(ss, late) == Append(ss, NewSess(late))

SetSocketTimeout(ss, id, d) == [ss EXCEPT ![id].sst = @ + 1, ![id].dur = d]

SessionClose(ss, id) == [ss EXCEPT ![id].closed = @ + 1]

GsPcs == {"gs_check", "gs_span", "gs_start", "gs_lock", "gs_copy", "gs_sst", "gs_timer",
          "gs_ret"}

Budget(p) == IF p = "h" THEN MaxOps ELSE MaxWorkerOps

\* every accessor invocation makes at most one timer
TimerIds == 1..(MaxOps + MaxWorkerOps * Cardinality(Workers))

\* r.Context() of the incoming request: no database key, a value of another
\* type under a key, or the accessor of an enclosing middleware for another
\* database
BaseContexts ==
    {c \in [Names -> CtxVals \ {"getSession"}] :
        /\ \E n \in Names : c[n] = "none"
        /\ \A d \in Databases : c[d] # "outerGetter"}

\* ---------------------------------------------------------- tracing spans
\* only session_handler.go starts spans
Traced(i) == i = "mgohttp"

\* no span started: libSpan is not started, sp is nil
NoTrace == [libStarted |-> FALSE, libFin |-> 0, sp |-> Nil, fin |-> <<>>]

\* libSpan, ctx := opentracing.StartSpanFromContext(ctx, "mgohttp")
StartLibSpan(tr) == [tr EXCEPT !.libStarted = TRUE]

\* sp, ctx = opentracing.StartSpanFromContext(ctx, getCallerName())
StartSpan(tr) == [tr EXCEPT !.fin = Append(@, 0), !.sp = Len(tr.fin) + 1]

\* sp.Finish()
FinishSpan(tr) == [tr EXCEPT !.fin[tr.sp] = @ + 1]

\* the span calls of the release step, made only when a session exists
ReleaseSpans(tr, s) ==
    IF s # Nil THEN [FinishSpan(tr) EXCEPT !.libFin = @ + 1] ELSE tr

\* ------------------------------------------------------ admission control
\* semaphore.NewWeighted(limit): no permit held, nobody waiting; ready holds
\* the waiters that were handed a permit and have not resumed yet
NewWeighted(limit) == [size |-> limit, cur |-> 0, waiters |-> <<>>, ready |-> {}]

\* Weighted.notifyWaiters: hand free permits to the waiters, oldest first
RECURSIVE notifyWaiters(_)
notifyWaiters(s) ==
    IF s.waiters # <<>> /\ s.size - s.cur >= 1
    THEN notifyWaiters([s EXCEPT !.cur = @ + 1,
                                 !.waiters = Tail(@),
                                 !.ready = @ \cup {Head(s.waiters)}])
    ELSE s

\* Weighted.Release(1), which never hands anything to anybody
ReleaseLeaking(s) == s

\* Weighted.Release(1)
Release1(s) == notifyWaiters([s EXCEPT !.cur = @ - 1])

\* Weighted.Acquire can return at once with a permit
CanAcquire(s) == s.size - s.cur >= 1 /\ s.waiters = <<>>

\* Weighted.Acquire returning at once with a permit
AcquireNow(s) == [s EXCEPT !.cur = @ + 1]

\* Weighted.Acquire queueing the caller r
Enqueue(s, r) == [s EXCEPT !.waiters = Append(@, r)]

\* the sequence q without its element r
RECURSIVE Without(_, _)
Without(q, r) ==
    IF q = <<>> THEN <<>>
    ELSE IF Head(q) = r THEN Tail(q)
    ELSE <<Head(q)>> \o Without(Tail(q), r)

\* Weighted.Acquire of caller r giving up because its context is done: a
\* waiter leaves the queue, a caller already handed a permit puts it back
GiveUp(s, r) ==
    IF r \in s.ready
    THEN notifyWaiters([s EXCEPT !.ready = @ \ {r}, !.cur = @ - 1])
    ELSE notifyWaiters([s EXCEPT !.waiters = Without(@, r)])

\* one request before ServeHTTP is entered
NewRequest ==
    [pc       |-> "idle",    \* position of ServeHTTP
     ctxDone  |-> FALSE,     \* r.Context() has ended
     err      |-> FALSE,     \* the acquire returned an error
     resp     |-> <<>>,      \* calls made on the ResponseWriter by ServeHTTP
     invoked  |-> FALSE,     \* the wrapped handler was called
     copies   |-> 0,         \* session copies created
     sst      |-> 0,         \* SetSocketTimeout calls on the copy
     closed   |-> 0,         \* Close calls that reached the mgo session
     timer    |-> "unset",   \* "unset", "armed", "running", "closing",
                             \* "fired", "stopped"
     acquired |-> 0,         \* permits ServeHTTP obtained
     released |-> 0,         \* Release(1) calls made for this request
     poolReleased |-> FALSE] \* the released flag of the copied SessionPool

\* the injector after construction with the given session limit
NewAdmission(limit) ==
    [sem |-> NewWeighted(limit), req |-> [r \in Requests |-> NewRequest]]

\* no admission-controlled injector is in use
NoAdmission == [sem |-> NewWeighted(0), req |-> <<>>]

\* the sessionLimit field of the injector NewMongoSessionInjector returns:
\* the constructor gives cfg.SessionLimit to the semaphore only and never
\* assigns the field, which keeps the zero value
InjectorSessionLimit == 0

\* what ServeHTTP writes when the acquire failed, without the status line
RefusalWithoutStatus(i, limit) ==
    IF i = "semaphore" THEN <<<<"Write", "mongo pool exhausted", limit>>>>
    ELSE <<>>

\* what ServeHTTP writes when the acquire failed; limit is the value of the
\* injector's sessionLimit field that the message is formatted with
Refusal(i, limit) ==
    IF i = "semaphore"
    THEN << <<"WriteHeader", StatusInternalServerError>>,
            <<"Write", "mongo pool exhausted", limit>> >>
    ELSE << <<"WriteHeader", StatusInternalServerError>> >>

\* the request record q after ServeHTTP refused it
Refused(i, limit, q) ==
    [q EXCEPT !.err = TRUE, !.resp = Refusal(i, limit), !.pc = "returned"]

\* SessionPool.Close of a copy up to s.sem.Release(1), for the request
\* record q under semaphore s: the first Close of a copied SessionPool sets
\* released and gives the permit back before the mgo session is closed; the
\* plain *mgo.Session of the other injector has nothing to release.  The
\* result is the pair of the new semaphore and the new request record
CloseRelease(i, s, q) ==
    IF i = "sessionpool" /\ ~q.poolReleased
    THEN <<Release1(s), [q EXCEPT !.poolReleased = TRUE, !.released = @ + 1]>>
    ELSE <<s, q>>

\* the Close call reaching the mgo session of the request record q
CloseSession(q) == [q EXCEPT !.closed = @ + 1]

\* the deferred c.sem.Release(1) that runs when ServeHTTP ends after a
\* successful acquire
DeferredRelease(i, s, q) ==
    IF i = "semaphore"
    THEN <<Release1(s), [q EXCEPT !.released = @ + 1]>>
    ELSE <<s, q>>

\* ------------------------------------------------------------ SessionPool
\* index of the root pool, the one NewSessionPool returns
RootPool == 1

\* a pool with no Close call in flight: the calls that are before
\* s.released = true, before s.sem.Release(1) and before s.session.Close()
NoCloses == [atSet |-> 0, atRelease |-> 0, atClose |-> 0]

\* NewSessionPool(session, limit): the root pool over the parent session,
\* which is session 1; sessions holds the Close count of every mgo session,
\* copying the CopyWithCtx calls that hold a permit and have not yet copied
\* the session, closes the Close calls in flight on every pool, started the
\* number of Close calls made so far, and panicked tells that a call
\* panicked, which ends the process
NewPools(limit) ==
    [sem      |-> NewWeighted(limit),
     pools    |-> <<[session |-> 1, copied |-> FALSE, released |-> FALSE]>>,
     sessions |-> <<0>>,
     copying  |-> 0,
     closes   |-> [p \in 1 .. (MaxCopies + 1) |-> NoCloses],
     started  |-> 0,
     panicked |-> FALSE,
     last     |-> [op |-> "none", p |-> Nil, ctxDone |-> FALSE,
                   ret |-> Nil, err |-> FALSE]]

\* no SessionPool is in use
NoPools == [sem |-> NewWeighted(0), pools |-> <<>>]

\* CopyWithCtx that asks for a permit whatever pool it is called on
CopyWithCtxAlwaysAcquiring(st, p, ctxDone, fail) ==
    IF fail
    THEN [st EXCEPT !.last = [op |-> "CopyWithCtx", p |-> p,
                              ctxDone |-> ctxDone, ret |-> Nil, err |-> TRUE]]
    ELSE [st EXCEPT
            !.sem = AcquireNow(@),
            !.copying = @ + 1,
            !.last = [op |-> "Acquire", p |-> p, ctxDone |-> ctxDone,
                      ret |-> Nil, err |-> FALSE]]

\* SessionPool.CopyWithCtx on pool p up to the return of sem.Acquire; fail
\* tells whether Acquire returned an error.  A copy returns itself, a failed
\* acquire returns the error, and after a successful one the call holds a
\* permit and goes on to copy the session
CopyWithCtx(st, p, ctxDone, fail) ==
    IF st.pools[p].copied
    THEN [st EXCEPT !.last = [op |-> "CopyWithCtx", p |-> p,
                              ctxDone |-> ctxDone, ret |-> p, err |-> FALSE]]
    ELSE IF fail
    THEN [st EXCEPT !.last = [op |-> "CopyWithCtx", p |-> p,
                              ctxDone |-> ctxDone, ret |-> Nil, err |-> TRUE]]
    ELSE [st EXCEPT
            !.sem = AcquireNow(@),
            !.copying = @ + 1,
            !.last = [op |-> "Acquire", p |-> p, ctxDone |-> ctxDone,
                      ret |-> Nil, err |-> FALSE]]

\* SessionPool.CopyWithCtx on the uncopied pool p after the acquire:
\* return &SessionPool{session: s.session.Copy(), sem: s.sem, copied: true}.
\* Copy panics on a session that was closed, and the permit stays taken
CopySession(st, p) ==
    IF st.sessions[st.pools[p].session] > 0
    THEN [st EXCEPT !.copying = @ - 1,
                    !.panicked = TRUE,
                    !.last = [op |-> "Copy", p |-> p, ctxDone |-> FALSE,
                              ret |-> Nil, err |-> TRUE]]
    ELSE [st EXCEPT
            !.copying = @ - 1,
            !.sessions = Append(@, 0),
            !.pools = Append(@, [session |-> Len(st.sessions) + 1,
                                 copied |-> TRUE, released |-> FALSE]),
            !.last = [op |-> "CopyWithCtx", p |-> p, ctxDone |-> FALSE,
                      ret |-> Len(st.pools) + 1, err |-> FALSE]]

\* what a step of SessionPool.Close on pool p leaves in last
ClosedLast(p) ==
    [op |-> "Close", p |-> p, ctxDone |-> FALSE, ret |-> Nil, err |-> FALSE]

\* SessionPool.Close on pool p, the test if s.copied && !s.released: no lock
\* guards the flag, so the call goes on to release whenever it read the
\* flag unset, whatever other Close calls are in flight
PoolCloseTest(st, p) ==
    LET q == st.pools[p]
    IN  [st EXCEPT
           !.started = @ + 1,
           !.closes[p].atSet = IF q.copied /\ ~q.released THEN @ + 1 ELSE @,
           !.closes[p].atClose = IF q.copied /\ ~q.released THEN @ ELSE @ + 1,
           !.last = ClosedLast(p)]

\* SessionPool.Close on pool p: s.released = true
PoolCloseFlag(st, p) ==
    [st EXCEPT !.pools[p].released = TRUE,
               !.closes[p].atSet = @ - 1,
               !.closes[p].atRelease = @ + 1,
               !.last = ClosedLast(p)]

\* SessionPool.Close on pool p: s.sem.Release(1), which panics when more
\* is released than is held
PoolCloseRelease(st, p) ==
    LET moved == [st EXCEPT !.closes[p].atRelease = @ - 1,
                            !.last = ClosedLast(p)]
    IN  IF st.sem.cur = 0
        THEN [moved EXCEPT !.sem.cur = @ - 1, !.panicked = TRUE]
        ELSE [moved EXCEPT !.sem = Release1(@), !.closes[p].atClose = @ + 1]

\* SessionPool.Close on pool p: s.session.Close()
PoolCloseSession(st, p) ==
    [st EXCEPT !.sessions[st.pools[p].session] = @ + 1,
               !.closes[p].atClose = @ - 1,
               !.last = ClosedLast(p)]

\* ----------------------------------------------------------- mgohttptest
\* the parent sessions a Config may carry
ParentSessions == {"s1", "s2"}
\* Config{Name, Sess}
Configs == [name : Names, sess : ParentSessions]
CfgLists == UNION {[1 .. k -> Configs] : k \in 0 .. MaxCfgs}
\* the goroutine that runs Do and one goroutine that Do starts
TestProcs == {"d", "w"}
\* how the build scopes the variable of a range loop: one variable for the
\* whole loop (go directive below 1.22) or one per iteration
LoopVars == {"shared", "periter"}

\* no accessor is stored under a name
NoAccessor == [iter |-> Nil, sess |-> Nil]

\* a helper about to be called with the configs cfgs
InitialTest(fn, lv, cfgs) ==
    [fn       |-> fn,        \* "WithSessions", "MakeContext", "InjectSession"
     loopvar  |-> lv,
     cfgs     |-> cfgs,
     pc       |-> "entry",   \* position of the helper and its caller
     ctx      |-> [n \in Names |-> NoAccessor],  \* the accessor under a name
     sessions |-> <<>>,      \* the sessions slice: recorded copies
     copies   |-> <<>>,      \* every copy made, with its Close count
     mu       |-> "free",    \* sessionMu: "free" or its holder
     gpc      |-> [g \in TestProcs |-> [pc |-> "unborn", name |-> "", sess |-> Nil]],
     rets     |-> {},        \* what the accessors returned: name and copy
     calls    |-> 0,         \* accessor invocations started
     nClose   |-> 0]         \* Close calls on the returned handler

\* no helper is in use
NoTest == [fn |-> "none", pc |-> "idle"]

\* context.WithValue(ctx, GetMgoSessionKey(name), getter)
WithValue(ctx, name, getter) == [ctx EXCEPT ![name] = getter]

\* the loop of WithSessions from iteration i on: the accessor stored by
\* iteration i is the closure made in that iteration
RECURSIVE InjectClosures(_, _, _)
InjectClosures(ctx, cfgs, i) ==
    IF i > Len(cfgs) THEN ctx
    ELSE InjectClosures(WithValue(ctx, cfgs[i].name,
                                  [iter |-> i, sess |-> Nil]), cfgs, i + 1)

\* InjectSession(ctx, parentSession, dbName) called once per config, from
\* config i on, each call on the context the call before returned: call i
\* stores under its name a closure over its own parentSession
RECURSIVE InjectSessions(_, _, _)
InjectSessions(ctx, cfgs, i) ==
    IF i > Len(cfgs) THEN ctx
    ELSE InjectSessions(WithValue(ctx, cfgs[i].name,
                                  [iter |-> i, sess |-> Nil]), cfgs, i + 1)

\* the value of the loop variable c that the closure of iteration i reads
\* when it runs, after the loop has ended
Captured(st, i) ==
    IF st.loopvar = "periter" THEN st.cfgs[i] ELSE st.cfgs[Len(st.cfgs)]

\* a new copy of the parent session; during tells whether Do is running,
\* early whether the copy was recorded before Do returned
NewCopy(parent, during) ==
    [parent |-> parent, closed |-> 0, during |-> during, early |-> FALSE]

\* the closing loop that skips the last recorded session
CloseAllButLast(copies, sessions) ==
    [c \in DOMAIN copies |->
        IF \E k \in DOMAIN sessions : sessions[k] = c /\ k < Len(sessions)
        THEN [copies[c] EXCEPT !.closed = @ + 1] ELSE copies[c]]

\* for _, c := range sessions { c.Close() }
CloseAll(copies, sessions) ==
    [c \in DOMAIN copies |->
        [copies[c] EXCEPT
            !.closed = @ + Cardinality({k \in DOMAIN sessions : sessions[k] = c})]]

\* the loop of MakeContext that makes one copy for the whole list
RECURSIVE MakeOneCopy(_, _)
MakeOneCopy(st, i) ==
    IF i > Len(st.cfgs) THEN st
    ELSE LET id == IF i = 1 THEN Len(st.copies) + 1 ELSE Len(st.copies)
             st2 == IF i = 1
                    THEN [st EXCEPT
                            !.copies = Append(@, NewCopy(st.cfgs[i].sess, FALSE)),
                            !.sessions = Append(@, id)]
                    ELSE st
         IN  MakeOneCopy([st2 EXCEPT
                            !.ctx = WithValue(@, st.cfgs[i].name,
                                              [iter |-> i, sess |-> id])],
                         i + 1)

\* the loop of MakeContext from iteration i on: copy the config's session,
\* record the copy, store a closure that returns it
RECURSIVE MakeCopies(_, _)
MakeCopies(st, i) ==
    IF i > Len(st.cfgs) THEN st
    ELSE LET id == Len(st.copies) + 1
         IN  MakeCopies([st EXCEPT
                           !.copies = Append(@, NewCopy(st.cfgs[i].sess, FALSE)),
                           !.sessions = Append(@, id),
                           !.ctx = WithValue(@, st.cfgs[i].name,
                                             [iter |-> i, sess |-> id])],
                        i + 1)

\* ---------------------------------------------------------- getCallerName
\* function names, written as the sequence of their path and name elements
FrameNames ==
    { <<"runtime", "Callers">>,
      <<"github.com", "Clever", "mgohttp", "getCallerName">>,
      <<"main", "handler">>,
      <<"net/http", "HandlerFunc", "ServeHTTP">> }
\* the frames of the calling goroutine, innermost first
Stacks == UNION {[1 .. k -> FrameNames] : k \in 0 .. MaxFrames}
\* the empty string
EmptyName == <<>>
DefaultName == <<"mgohttp-default-fn">>

\* strings.Contains(name, word) for a word that is one element of a name
Contains(name, word) == \E i \in DOMAIN name : name[i] = word

\* frames.Next() that hands out the last frame again when none remain
FramesNextNeverEmpty(stack, pos) ==
    IF pos < Len(stack)
    THEN [function |-> stack[pos + 1], more |-> TRUE]
    ELSE [function |-> stack[Len(stack)], more |-> TRUE]

\* frames.Next() after pos frames were handed out: the next frame and
\* whether more follow; the zero Frame when none remain
FramesNext(stack, pos) ==
    IF pos < Len(stack)
    THEN [function |-> stack[pos + 1], more |-> pos + 1 < Len(stack)]
    ELSE [function |-> EmptyName, more |-> FALSE]

\* getCallerName about to run on a goroutine whose frames are stack
NewWalk(stack) ==
    [stack |-> stack,
     pc    |-> "entry",     \* "idle", "entry", "loop", "done"
     pos   |-> 0,           \* frames handed out by frames.Next()
     iters |-> 0,           \* iterations of the frame loop
     ret   |-> EmptyName]   \* the return value once pc = "done"

\* getCallerName is not running
NoWalk == [pc |-> "idle"]

\* ------------------------------------------------------------------- Init
\* only mgohttp's SessionHandler has an errorCode field, which its tests
\* override; sessionpool.go always writes 503
ErrorCodes(i) ==
    IF i = "mgohttp" THEN {StatusServiceUnavailable, StatusTeapot}
    ELSE {StatusServiceUnavailable}

NoRace == [first |-> "none", parked |-> FALSE]

NoCall == [op |-> "none", n |-> 0, err |-> "nil"]

NoExpect == [code |-> 0, body |-> <<>>, hdr |-> EmptyHeader]

Init ==
    /\ impl \in Impls
    /\ cfg \in [database : Databases, timeout : Durations,
                errorCode : ErrorCodes(impl)]
    /\ baseCtx \in BaseContexts
    /\ cpc = "entry"
    /\ branch = "none"
    /\ done = FALSE
    /\ timer = "unset"
    /\ timerDur = ""
    /\ ctimers = <<>>
    /\ sessionTimer = Nil
    /\ race = NoRace
    /\ tw = NewTimeoutWriter
    /\ rw = NewResponseWriter
    /\ newSession = Nil
    /\ sessionMutex = "free"
    /\ sess = <<>>
    /\ hpc = [p \in Procs |-> "unborn"]
    /\ ops = [p \in Procs |-> 0]
    /\ lastCall = NoCall
    /\ rets = {}
    /\ nAcc = 0
    /\ overlap = FALSE
    /\ okNames = {}
    /\ panicked = NoPanic
    /\ expect = NoExpect
    /\ trace = NoTrace
    /\ adm = NoAdmission
    /\ pool = NoPools
    /\ th = NoTest
    /\ gcn = NoWalk

\* the panic of goroutine p is recovered: the lazy-timer injector calls the
\* wrapped handler on the goroutine that serves the request, where net/http
\* recovers a panic after ServeHTTP has unwound; the other injectors run the
\* handler on a goroutine of their own
Recovers(i, p) == i = "lazytimer" /\ p = "h"

\* a recovered panic has unwound ServeHTTP and no other goroutine panicked
Recovered == impl = "lazytimer" /\ cpc = "returned" /\ hpc["h"] = "done"

\* a panic that is not recovered ends the process: nothing runs after it
Alive == panicked = NoPanic \/ Recovered

\* ------------------------------------------------------------ coordinator
EagerSessions == <<NewSess(FALSE)>>

\* var newSession *mgo.Session: nothing is copied when ServeHTTP starts
InitialSessions == <<>>

\* ServeHTTP up to the select: the timer is created, the shim is allocated
\* and the handler goroutine is started
Serve ==
    /\ Alive
    /\ impl \in RacingImpls
    /\ cpc = "entry"
    /\ cpc' = "select"
    /\ timer' = "armed"
    /\ timerDur' = cfg.timeout
    /\ UNCHANGED <<ctimers, sessionTimer, race>>
    /\ tw' = NewTimeoutWriter
    /\ hpc' = [hpc EXCEPT !["h"] = "run"]
    /\ sess' = InitialSessions
    /\ newSession' = Len(InitialSessions)
    /\ sessionMutex' = "free"
    /\ trace' = IF Traced(impl) THEN StartLibSpan(NoTrace) ELSE trace
    /\ UNCHANGED <<cfgVars, branch, done, rw, rets, nAcc, overlap, okNames,
                   ops, lastCall, panicked, expect>>
    /\ UNCHANGED <<adm, libVars>>

\* the select finds done closed
SelectDone ==
    /\ Alive
    /\ cpc = "select"
    /\ done
    /\ cpc' = "copy"
    /\ branch' = "Completed"
    /\ UNCHANGED <<cfgVars, done, timer, timerDur, ctimers, sessionTimer, race, tw, rw, sessVars, procVars>>
    /\ UNCHANGED <<trace, adm, libVars>>

\* the select finds a value in sessionTimer.C
SelectTimer ==
    /\ Alive
    /\ cpc = "select"
    /\ timer = "fired"
    /\ cpc' = "setTimedOut"
    /\ branch' = "TimedOut"
    /\ UNCHANGED <<cfgVars, done, timer, timerDur, ctimers, sessionTimer, race, tw, rw, sessVars, procVars>>
    /\ UNCHANGED <<trace, adm, libVars>>

\* neither case is ready: the coordinator blocks in the select
SelectPark ==
    /\ Alive
    /\ cpc = "select"
    /\ ~done
    /\ timer # "fired"
    /\ cpc' = "parked"
    /\ UNCHANGED <<cfgVars, branch, done, timer, timerDur, ctimers, sessionTimer, race, tw, rw, sessVars,
                   procVars>>
    /\ UNCHANGED <<trace, adm, libVars>>

\* a select that waits for done only: the timer's value stays in the channel
TimerFireUnheard ==
    /\ Alive
    /\ timer = "armed"
    /\ timer' = "fired"
    /\ race' = IF race.first = "none"
               THEN [first |-> "timer", parked |-> FALSE] ELSE race
    /\ UNCHANGED <<cfgVars, cpc, branch, done, timerDur, ctimers, sessionTimer,
                   tw, rw, sessVars, procVars>>
    /\ UNCHANGED <<trace, adm, libVars>>

\* the runtime timer sends on sessionTimer.C; a coordinator blocked in the
\* select receives it at once
TimerFire ==
    /\ Alive
    /\ timer = "armed"
    /\ timer' = "fired"
    /\ IF cpc = "parked"
       THEN cpc' = "setTimedOut" /\ branch' = "TimedOut"
       ELSE UNCHANGED <<cpc, branch>>
    /\ race' = IF race.first = "none"
               THEN [first |-> "timer", parked |-> cpc = "parked"] ELSE race
    /\ UNCHANGED <<cfgVars, done, timerDur, ctimers, sessionTimer, tw, rw, sessVars, procVars>>
    /\ UNCHANGED <<trace, adm, libVars>>

Copy ==
    /\ Alive
    /\ cpc = "copy"
    /\ LET r == copyToResponseWriter(tw, rw)
       IN  tw' = r.tw /\ rw' = r.w
    /\ cpc' = "release"
    /\ UNCHANGED <<cfgVars, branch, done, timer, timerDur, ctimers, sessionTimer, race, sessVars, procVars>>
    /\ UNCHANGED <<trace, adm, libVars>>

SetTimedOut ==
    /\ Alive
    /\ cpc = "setTimedOut"
    /\ tw' = setTimedOut(tw)
    /\ cpc' = "writeError"
    /\ UNCHANGED <<cfgVars, branch, done, timer, timerDur, ctimers, sessionTimer, race, rw, sessVars,
                   procVars>>
    /\ UNCHANGED <<trace, adm, libVars>>

TimeoutResponseWithBody(w, code, t) ==
    RealWrite(RealWriteHeader(w, code, "coord"), t.wbuf, "coord")

TimeoutResponseMissing(w, code, t) == w

TimeoutResponseWithHeaders(w, code, t) ==
    RealWriteHeader(CopyHeaders(w, t.h, "coord"), code, "coord")

\* the response of the timeout branch: w.WriteHeader(c.errorCode)
TimeoutResponse(w, code, t) == RealWriteHeader(w, code, "coord")

\* the timer case running on into the done case
WriteErrorFallthrough ==
    /\ Alive
    /\ cpc = "writeError"
    /\ rw' = TimeoutResponse(rw, cfg.errorCode, tw)
    /\ cpc' = "copy"
    /\ UNCHANGED <<cfgVars, branch, done, timer, timerDur, ctimers, sessionTimer,
                   race, tw, sessVars, procVars>>
    /\ UNCHANGED <<trace, adm, libVars>>

WriteError ==
    /\ Alive
    /\ cpc = "writeError"
    /\ rw' = TimeoutResponse(rw, cfg.errorCode, tw)
    /\ cpc' = "release"
    /\ UNCHANGED <<cfgVars, branch, done, timer, timerDur, ctimers, sessionTimer, race, tw, sessVars,
                   procVars>>
    /\ UNCHANGED <<trace, adm, libVars>>

\* the body of the release step, run under sessionMutex
ReleaseSession(ss, s) == IF s # Nil THEN SessionClose(ss, s) ELSE ss

\* positions of the coordinator once the select has chosen and the response
\* is on the real writer
PastSelect == {"release", "finish", "returned"}

\* the release step (deferred in mgohttp, after the select in
\* mgosessionpool): sessionMutex.Lock() and, when a session exists,
\* newSession.Close().  The traced handler keeps the mutex while it goes on
\* to finish the spans
Release ==
    /\ Alive
    /\ cpc = "release"
    /\ sessionMutex = "free"
    /\ sess' = ReleaseSession(sess, newSession)
    /\ IF Traced(impl) /\ newSession # Nil
       THEN cpc' = "finish" /\ sessionMutex' = "c"
       ELSE cpc' = "returned" /\ sessionMutex' = sessionMutex
    /\ UNCHANGED <<cfgVars, branch, done, timer, timerDur, ctimers, sessionTimer, race, tw, rw, newSession,
                   rets, nAcc, overlap, okNames, procVars>>
    /\ UNCHANGED <<trace, adm, libVars>>

\* the release step of the traced handler after newSession.Close():
\* sp.Finish() on the span sp refers to by now, libSpan.Finish(), and the
\* deferred sessionMutex.Unlock()
ReleaseFinish ==
    /\ Alive
    /\ cpc = "finish"
    /\ trace' = ReleaseSpans(trace, newSession)
    /\ sessionMutex' = "free"
    /\ cpc' = "returned"
    /\ UNCHANGED <<cfgVars, branch, done, timer, timerDur, ctimers, sessionTimer, race, tw, rw, newSession,
                   sess, rets, nAcc, overlap, okNames, procVars>>
    /\ UNCHANGED <<adm, libVars>>

\* -------------------------------------------------- the wrapped handler
Running(p) == Alive /\ hpc[p] = "run" /\ ops[p] < Budget(p)

Step(p) == ops' = [ops EXCEPT ![p] = @ + 1]

HHeaderSet(k, v) ==
    /\ Running("h")
    /\ Step("h")
    /\ IF HandlerWriter(impl) = "tw"
       THEN tw' = HeaderSet(tw, k, v) /\ rw' = rw
       ELSE rw' = RealSetHeader(rw, k, v, "h") /\ tw' = tw
    /\ lastCall' = NoCall
    /\ expect' = [expect EXCEPT !.hdr[k] = v]
    /\ UNCHANGED <<cfgVars, coordVars, sessVars, hpc, panicked>>
    /\ UNCHANGED <<trace, adm, libVars>>

HWriteHeader(code) ==
    /\ Running("h")
    /\ Step("h")
    /\ IF HandlerWriter(impl) = "tw"
       THEN tw' = WriteHeader(tw, code) /\ rw' = rw
       ELSE rw' = RealWriteHeader(rw, code, "h") /\ tw' = tw
    /\ lastCall' = NoCall
    /\ expect' = IF expect.code = 0 THEN [expect EXCEPT !.code = code]
                 ELSE expect
    /\ UNCHANGED <<cfgVars, coordVars, sessVars, hpc, panicked>>
    /\ UNCHANGED <<trace, adm, libVars>>

HWrite(p) ==
    /\ Running("h")
    /\ Step("h")
    /\ IF HandlerWriter(impl) = "tw"
       THEN LET r == Write(tw, p)
            IN  /\ tw' = r.tw
                /\ rw' = rw
                /\ lastCall' = [op |-> "Write", n |-> r.n, err |-> r.err]
       ELSE /\ rw' = RealWrite(rw, p, "h")
            /\ tw' = tw
            /\ lastCall' = [op |-> "Write", n |-> Len(p), err |-> "nil"]
    /\ expect' = [expect EXCEPT
                     !.code = IF @ = 0 THEN StatusOK ELSE @,
                     !.body = @ \o p]
    /\ UNCHANGED <<cfgVars, coordVars, sessVars, hpc, panicked>>
    /\ UNCHANGED <<trace, adm, libVars>>

\* the handler starts a goroutine of its own
HSpawn(g) ==
    /\ Running("h")
    /\ hpc[g] = "unborn"
    /\ Step("h")
    /\ hpc' = [hpc EXCEPT ![g] = "run"]
    /\ lastCall' = NoCall
    /\ UNCHANGED <<cfgVars, coordVars, tw, rw, sessVars, panicked, expect>>
    /\ UNCHANGED <<trace, adm, libVars>>

\* the handler returns and the goroutine closes done; a coordinator blocked
\* in the select is woken on the done case
HReturn ==
    /\ Alive
    /\ impl \in RacingImpls
    /\ hpc["h"] = "run"
    /\ hpc' = [hpc EXCEPT !["h"] = "done"]
    /\ done' = TRUE
    /\ IF cpc = "parked"
       THEN cpc' = "copy" /\ branch' = "Completed"
       ELSE UNCHANGED <<cpc, branch>>
    /\ race' = IF race.first = "none"
               THEN [first |-> "done", parked |-> cpc = "parked"] ELSE race
    /\ UNCHANGED <<cfgVars, timer, timerDur, ctimers, sessionTimer, tw, rw, sessVars, ops, lastCall,
                   panicked, expect>>
    /\ UNCHANGED <<trace, adm, libVars>>

\* a goroutine started by the handler ends
WExit(g) ==
    /\ Alive
    /\ g \in Workers
    /\ hpc[g] = "run"
    /\ hpc' = [hpc EXCEPT ![g] = "done"]
    /\ UNCHANGED <<cfgVars, coordVars, tw, rw, sessVars, ops, lastCall,
                   panicked, expect>>
    /\ UNCHANGED <<trace, adm, libVars>>

\* FromContext(ctx, name) / SessionFromContext(ctx, name): look the accessor
\* up and invoke it, or panic with the database name; a recovered panic
\* leaves ServeHTTP returned without its timer being stopped, any other
\* panic ends the process
FromContext(p, name) ==
    /\ Running(p)
    /\ Step(p)
    /\ lastCall' = IF p = "h" THEN NoCall ELSE lastCall
    /\ IF ~IsGetter(HandlerCtx[name])
       THEN /\ panicked' = name
            /\ hpc' = IF Recovers(impl, p)
                      THEN [hpc EXCEPT ![p] = "done"] ELSE hpc
            /\ cpc' = IF Recovers(impl, p) THEN "returned"
                      ELSE IF impl = "lazytimer" THEN "aborted" ELSE cpc
            /\ UNCHANGED <<rets, nAcc, overlap, okNames>>
       ELSE IF HandlerCtx[name] = "outerGetter"
       THEN /\ rets' = rets \cup {OuterSession}
            /\ okNames' = okNames \cup {name}
            /\ UNCHANGED <<cpc, hpc, nAcc, overlap, panicked>>
       ELSE /\ hpc' = [hpc EXCEPT ![p] = "gs_check"]
            /\ nAcc' = nAcc + 1
            /\ overlap' = (overlap \/ \E q \in Procs \ {p} : hpc[q] \in GsPcs)
            /\ okNames' = okNames \cup {name}
            /\ UNCHANGED <<cpc, rets, panicked>>
    /\ UNCHANGED <<cfgVars, branch, done, timer, timerDur, ctimers,
                   sessionTimer, race, tw, rw, newSession, sessionMutex, sess,
                   expect>>
    /\ UNCHANGED <<trace, adm, libVars>>

\* getSession: if newSession != nil { return newSession }.  The traced
\* handler calls sp.Finish() on the span sp refers to before it returns the
\* session; when it read nil it goes on to start a span before it takes
\* sessionMutex, so neither the read nor the spans are under the mutex
GsCheck(p) ==
    /\ Alive
    /\ hpc[p] = "gs_check"
    /\ IF HasSession(newSession)
       THEN IF Traced(impl)
            THEN /\ trace' = FinishSpan(trace)
                 /\ hpc' = [hpc EXCEPT ![p] = "gs_span"]
                 /\ rets' = rets
            ELSE /\ rets' = rets \cup {newSession}
                 /\ hpc' = [hpc EXCEPT ![p] = "run"]
                 /\ trace' = trace
       ELSE /\ hpc' = [hpc EXCEPT ![p] = IF Traced(impl) THEN "gs_start"
                                          ELSE IF impl \in RacingImpls
                                          THEN "gs_lock" ELSE "gs_copy"]
            /\ rets' = rets
            /\ trace' = trace
    /\ UNCHANGED <<cfgVars, coordVars, tw, rw, newSession, sessionMutex, sess,
                   nAcc, overlap, okNames, ops, lastCall, panicked, expect>>
    /\ UNCHANGED <<adm, libVars>>

\* getSession of the traced handler after it read newSession as nil:
\* sp, ctx = opentracing.StartSpanFromContext(ctx, getCallerName()), which
\* comes before sessionMutex.Lock()
GsStart(p) ==
    /\ Alive
    /\ hpc[p] = "gs_start"
    /\ trace' = StartSpan(trace)
    /\ hpc' = [hpc EXCEPT ![p] = "gs_lock"]
    /\ UNCHANGED <<cfgVars, coordVars, tw, rw, newSession, sessionMutex, sess,
                   rets, nAcc, overlap, okNames, ops, lastCall, panicked,
                   expect>>
    /\ UNCHANGED <<adm, libVars>>

\* getSession, the shortcircuit of the traced handler after sp.Finish():
\* sp, ctx = opentracing.StartSpanFromContext(...); return newSession, ctx
GsSpan(p) ==
    /\ Alive
    /\ hpc[p] = "gs_span"
    /\ trace' = StartSpan(trace)
    /\ rets' = rets \cup {newSession}
    /\ hpc' = [hpc EXCEPT ![p] = "run"]
    /\ UNCHANGED <<cfgVars, coordVars, tw, rw, newSession, sessionMutex, sess,
                   nAcc, overlap, okNames, ops, lastCall, panicked, expect>>
    /\ UNCHANGED <<adm, libVars>>

\* getSession: sessionMutex.Lock()
GsLock(p) ==
    /\ Alive
    /\ hpc[p] = "gs_lock"
    /\ sessionMutex = "free"
    /\ sessionMutex' = p
    /\ hpc' = [hpc EXCEPT ![p] = "gs_copy"]
    /\ UNCHANGED <<cfgVars, coordVars, tw, rw, newSession, sess, rets, nAcc,
                   overlap, okNames, ops, lastCall, panicked, expect>>
    /\ UNCHANGED <<trace, adm, libVars>>

\* getSession: newSession = c.parentSession.Copy()
GsCopy(p) ==
    /\ Alive
    /\ hpc[p] = "gs_copy"
    /\ sess' = SessionCopy(sess, cpc = "returned")
    /\ newSession' = Len(sess) + 1
    /\ okNames' = okNames
    /\ hpc' = [hpc EXCEPT ![p] = "gs_sst"]
    /\ UNCHANGED <<cfgVars, coordVars, tw, rw, sessionMutex, rets, nAcc,
                   overlap, ops, lastCall, panicked, expect>>
    /\ UNCHANGED <<trace, adm, libVars>>

SocketTimeoutFromConfig(i, c) == RequestTimeoutDuration

\* the duration getSession gives to SetSocketTimeout
SocketTimeout(i, c) ==
    IF i \in RacingImpls THEN c.timeout ELSE RequestTimeoutDuration

\* getSession: newSession.SetSocketTimeout(c.timeout)
GsSetSocketTimeout(p) ==
    /\ Alive
    /\ hpc[p] = "gs_sst"
    /\ sess' = SetSocketTimeout(sess, newSession, SocketTimeout(impl, cfg))
    /\ hpc' = [hpc EXCEPT ![p] = IF impl \in RacingImpls
                                 THEN "gs_ret" ELSE "gs_timer"]
    /\ UNCHANGED <<cfgVars, coordVars, tw, rw, newSession, sessionMutex, rets,
                   nAcc, overlap, okNames, ops, lastCall, panicked, expect>>
    /\ UNCHANGED <<trace, adm, libVars>>

\* getSession: return newSession, with the deferred sessionMutex.Unlock()
GsReturn(p) ==
    /\ Alive
    /\ hpc[p] = "gs_ret"
    /\ rets' = rets \cup {newSession}
    /\ sessionMutex' = IF impl \in RacingImpls THEN "free" ELSE sessionMutex
    /\ hpc' = [hpc EXCEPT ![p] = "run"]
    /\ UNCHANGED <<cfgVars, coordVars, tw, rw, newSession, sess, nAcc, overlap,
                   okNames, ops, lastCall, panicked, expect>>
    /\ UNCHANGED <<trace, adm, libVars>>


\* ------------------------------------------------ the lazy-timer injector
\* ServeHTTP up to the call of the wrapped handler, which runs on the
\* caller's goroutine with the real writer
LzServe ==
    /\ Alive
    /\ impl = "lazytimer"
    /\ cpc = "entry"
    /\ cpc' = "handler"
    /\ hpc' = [hpc EXCEPT !["h"] = "run"]
    /\ sess' = InitialSessions
    /\ newSession' = Len(InitialSessions)
    /\ sessionTimer' = Nil
    /\ UNCHANGED <<cfgVars, branch, done, timer, timerDur, ctimers, race, tw, rw,
                   sessionMutex, rets, nAcc, overlap, okNames, ops, lastCall,
                   panicked, expect>>
    /\ UNCHANGED <<trace, adm, libVars>>

\* getSession: sessionTimer = time.AfterFunc(RequestTimeoutDuration, ...)
LzAfterFunc(p) ==
    /\ Alive
    /\ hpc[p] = "gs_timer"
    /\ ctimers' = Append(ctimers, "armed")
    /\ sessionTimer' = Len(ctimers) + 1
    /\ hpc' = [hpc EXCEPT ![p] = "gs_ret"]
    /\ UNCHANGED <<cfgVars, cpc, branch, done, timer, timerDur, race, tw, rw,
                   sessVars, ops, lastCall, panicked, expect>>
    /\ UNCHANGED <<trace, adm, libVars>>

\* a timer made by AfterFunc expires: from now on Stop returns false, and
\* its function is started on a goroutine of its own
LzTimerFire(i) ==
    /\ Alive
    /\ i \in DOMAIN ctimers
    /\ ctimers[i] = "armed"
    /\ ctimers' = [ctimers EXCEPT ![i] = "expired"]
    /\ UNCHANGED <<cfgVars, cpc, branch, done, timer, timerDur, sessionTimer,
                   race, tw, rw, sessVars, procVars>>
    /\ UNCHANGED <<trace, adm, libVars>>

\* the function of an expired timer runs: newSession.Close(), on the
\* session newSession refers to at that moment
LzCallback(i) ==
    /\ Alive
    /\ i \in DOMAIN ctimers
    /\ ctimers[i] = "expired"
    /\ ctimers' = [ctimers EXCEPT ![i] = "fired"]
    /\ sess' = SessionClose(sess, newSession)
    /\ UNCHANGED <<cfgVars, cpc, branch, done, timer, timerDur, sessionTimer,
                   race, tw, rw, newSession, sessionMutex, rets, nAcc, overlap,
                   okNames, procVars>>
    /\ UNCHANGED <<trace, adm, libVars>>

\* the wrapped handler returns to ServeHTTP
LzHandlerReturn ==
    /\ Alive
    /\ impl = "lazytimer"
    /\ hpc["h"] = "run"
    /\ hpc' = [hpc EXCEPT !["h"] = "done"]
    /\ cpc' = "stop"
    /\ UNCHANGED <<cfgVars, branch, done, timer, timerDur, ctimers, sessionTimer,
                   race, tw, rw, sessVars, ops, lastCall, panicked, expect>>
    /\ UNCHANGED <<trace, adm, libVars>>

\* if sessionTimer != nil && sessionTimer.Stop(): Stop returns true only
\* for a timer that has not expired
LzStop ==
    /\ Alive
    /\ cpc = "stop"
    /\ IF sessionTimer # Nil /\ ctimers[sessionTimer] = "armed"
       THEN /\ ctimers' = [ctimers EXCEPT ![sessionTimer] = "stopped"]
            /\ cpc' = "close"
       ELSE /\ ctimers' = ctimers
            /\ cpc' = "returned"
    /\ UNCHANGED <<cfgVars, branch, done, timer, timerDur, sessionTimer, race,
                   tw, rw, sessVars, procVars>>
    /\ UNCHANGED <<trace, adm, libVars>>

\* the regular path after Stop returned true: newSession.Close(), and
\* ServeHTTP returns
LzClose ==
    /\ Alive
    /\ cpc = "close"
    /\ sess' = SessionClose(sess, newSession)
    /\ cpc' = "returned"
    /\ UNCHANGED <<cfgVars, branch, done, timer, timerDur, ctimers,
                   sessionTimer, race, tw, rw, newSession, sessionMutex, rets,
                   nAcc, overlap, okNames, procVars>>
    /\ UNCHANGED <<trace, adm, libVars>>

\* ------------------------------------------------------------------- Next
Next ==
    \/ Serve
    \/ SelectDone
    \/ SelectTimer
    \/ SelectPark
    \/ TimerFire
    \/ Copy
    \/ SetTimedOut
    \/ WriteError
    \/ Release
    \/ ReleaseFinish
    \/ \E k \in HKeys, v \in HVals : HHeaderSet(k, v)
    \/ \E c \in HandlerCodes : HWriteHeader(c)
    \/ \E p \in Chunks : HWrite(p)
    \/ \E g \in Workers : HSpawn(g)
    \/ HReturn
    \/ \E g \in Workers : WExit(g)
    \/ \E p \in Procs, n \in Names : FromContext(p, n)
    \/ \E p \in Procs : GsCheck(p)
    \/ \E p \in Procs : GsSpan(p)
    \/ \E p \in Procs : GsStart(p)
    \/ \E p \in Procs : GsLock(p)
    \/ \E p \in Procs : GsCopy(p)
    \/ \E p \in Procs : GsSetSocketTimeout(p)
    \/ \E p \in Procs : GsReturn(p)
    \/ LzServe
    \/ \E p \in Procs : LzAfterFunc(p)
    \/ \E i \in TimerIds : LzTimerFire(i)
    \/ \E i \in TimerIds : LzCallback(i)
    \/ LzHandlerReturn
    \/ LzStop
    \/ LzClose

Spec == Init /\ [][Next]_vars


\* ----------------------------------------------------------------- claims
Racing == impl \in RacingImpls

Returned == cpc = "returned"

\* the calls copyToResponseWriter makes for the handler's recorded output
CompletedLog ==
    <<Call("Header", expect.hdr, "coord"),
      Call("WriteHeader", IF expect.code = 0 THEN StatusOK ELSE expect.code,
           "coord"),
      Call("Write", expect.body, "coord")>>

\* the single call of the timeout branch
TimedOutLog == <<Call("WriteHeader", cfg.errorCode, "coord")>>

\* sessions handed out by this request's accessor
OwnRets == rets \ {OuterSession}

\* C1: the real ResponseWriter never receives more than one WriteHeader
\* call, and once ServeHTTP has returned it has received exactly one: the
\* one of copyToResponseWriter on the Completed branch (the shim is not
\* timed out) or the one carrying the error code on the TimedOut branch
\* (the shim is timed out and nothing was copied), never both, never none.
C1_ExactlyOneWriteHeader ==
    Racing =>
    /\ Cardinality(WriteHeaderCalls(rw)) <= 1
    /\ Returned =>
         /\ Cardinality(WriteHeaderCalls(rw)) = 1
         /\ \/ branch = "Completed" /\ ~tw.timedOut /\ WriteCalls(rw) # {}
            \/ /\ branch = "TimedOut" /\ tw.timedOut /\ WriteCalls(rw) = {}
               /\ rw.log[1].arg = cfg.errorCode

\* both events of the race have happened and the timeout branch was taken
C1_Witness ==
    Racing /\ Returned /\ done /\ timer = "fired" /\ branch = "TimedOut"

\* C2 as stated: when the handler closes done before the timer fires, the
\* real writer gets exactly the handler's status, headers and body and never
\* the error-code response.
C2_Original ==
    (Returned /\ race.first = "done") => rw.log = CompletedLog

\* C2 amended: when the select takes the done case, the real writer gets
\* exactly the status code, header entries and body bytes the handler wrote
\* to the shim and never the error-code response; the select takes the done
\* case whenever the handler closes done while the coordinator is blocked in
\* the select.  (When done is closed before the timer fires but both are
\* ready when the select runs, either case may be taken.)
C2_CompletedDeliversHandlerOutput ==
    /\ (branch = "Completed" /\ cpc \in PastSelect) =>
         /\ rw.log = CompletedLog
         /\ rw.hdr = expect.hdr
         /\ StatusOf(rw) = (IF expect.code = 0 THEN StatusOK ELSE expect.code)
         /\ BodyOf(rw.log) = expect.body
    /\ (race.first = "done" /\ race.parked) => branch = "Completed"

\* a stricter inner timeout handler's 503 is delivered although the
\* middleware would have written another code
C2_Witness ==
    /\ Returned /\ branch = "Completed" /\ race.first = "done" /\ race.parked
    /\ expect.code = StatusServiceUnavailable
    /\ cfg.errorCode = StatusTeapot
    /\ StatusOf(rw) = StatusServiceUnavailable
    /\ expect.hdr # EmptyHeader
    /\ Len(expect.body) >= 1

\* C3 as stated: when the handler has not returned at the moment the timer
\* fires, the real writer gets the error code and no body.
C3_Original ==
    (Returned /\ race.first = "timer") => rw.log = TimedOutLog

\* C3 amended: when the select takes the timer case, the real writer gets
\* the configured errorCode (503 unless overridden) and no body, whatever
\* the handler writes to the shim before or after; the select takes the
\* timer case whenever the timer fires while the coordinator is blocked in
\* the select.  (When the timer fires first but the handler returns before
\* the select runs, either case may be taken.)
C3_TimedOutDeliversErrorCode ==
    /\ (branch = "TimedOut" /\ cpc \in PastSelect) =>
         /\ rw.log = TimedOutLog
         /\ StatusOf(rw) = cfg.errorCode
         /\ BodyOf(rw.log) = <<>>
         /\ rw.hdr = EmptyHeader
    /\ (race.first = "timer" /\ race.parked) => branch = "TimedOut"
    /\ impl = "mgosessionpool" => cfg.errorCode = StatusServiceUnavailable

\* the handler wrote a status and a body to the shim, the timer fired while
\* the coordinator was blocked, and the handler went on writing
C3_Witness ==
    /\ Returned /\ branch = "TimedOut" /\ race.first = "timer" /\ race.parked
    /\ tw.wroteHeader /\ tw.code = StatusOK /\ Len(tw.wbuf) >= 1
    /\ Len(expect.body) > Len(tw.wbuf)
    /\ StatusOf(rw) = cfg.errorCode

\* C4: when the accessor invocations of a request follow one another (no
\* two of them are in progress at once), Copy() is called at most once, and
\* once N >= 1 invocations have returned it has been called exactly once
\* and every invocation has returned that one session.
C4_SequentialAccessorCopiesOnce ==
    ~overlap =>
        /\ Len(sess) <= 1
        /\ OwnRets \subseteq {1}
        /\ (nAcc >= 1 /\ \A p \in Procs : hpc[p] \notin GsPcs) =>
              (Len(sess) = 1 /\ OwnRets = {1} /\ newSession = 1)

C4_Witness ==
    /\ ~overlap /\ nAcc >= 2 /\ \A p \in Procs : hpc[p] \notin GsPcs
    /\ Len(sess) = 1 /\ OwnRets = {1}

\* C5 as stated: under every interleaving of concurrent accessor
\* invocations, Copy() is called at most once and all callers receive the
\* same session.
C5_Original ==
    Racing => (Len(sess) <= 1 /\ Cardinality(OwnRets) <= 1)

\* C6: once the shim is timed out, no step changes its body buffer, its
\* recorded status code or its wroteHeader flag, and every Write of the
\* handler returns (0, ErrHandlerTimeout) and leaves the real writer as it
\* is.
C6_WriteAfterTimeoutRejected ==
    [][tw.timedOut =>
          /\ tw'.wbuf = tw.wbuf
          /\ tw'.code = tw.code
          /\ tw'.wroteHeader = tw.wroteHeader
          /\ tw'.timedOut
          /\ (ops'["h"] = ops["h"] + 1 /\ lastCall'.op = "Write") =>
                /\ lastCall'.n = 0
                /\ lastCall'.err = "ErrHandlerTimeout"
                /\ rw' = rw]_vars

\* the abandoned handler has written after the timeout and the shim still
\* holds what it held before
C6_Witness ==
    /\ tw.timedOut /\ lastCall.op = "Write" /\ lastCall.err = "ErrHandlerTimeout"
    /\ Len(tw.wbuf) >= 1 /\ Len(expect.body) > Len(tw.wbuf)

\* C7 as stated: on both branches, every session copied before the release
\* step has been closed exactly once when ServeHTTP returns.
C7_Original ==
    (Racing /\ Returned) => \A i \in DOMAIN sess : ~sess[i].late => sess[i].closed = 1

\* C8: while the handler has not invoked the session accessor, no session
\* has been copied (so SetSocketTimeout and Close have been called on none),
\* the release step changes nothing, the response is still the one of the
\* race, and the lazy-timer injector has created no timer.
C8_NoAccessorNoSession ==
    nAcc = 0 =>
        /\ sess = <<>>
        /\ newSession = Nil
        /\ sessionMutex = "free"
        /\ ctimers = <<>> /\ sessionTimer = Nil
        /\ (Racing /\ Returned) =>
              \/ branch = "Completed" /\ rw.log = CompletedLog
              \/ branch = "TimedOut" /\ rw.log = TimedOutLog

\* the handler wrote a response without asking for a session and the
\* request is over
C8_Witness ==
    /\ Racing /\ Returned /\ nAcc = 0 /\ sess = <<>>
    /\ branch = "Completed" /\ Len(expect.body) >= 1

\* C9 as stated: FromContext panics, naming the database, whenever the
\* context holds no accessor under the key of the name, and in the context
\* the middleware builds for database D it does not panic for D and panics
\* for every name other than D.
C9_Original ==
    /\ panicked # NoPanic =>
          /\ HandlerCtx[panicked] \in {"none", "other"}
          /\ panicked # cfg.database
    /\ \A n \in okNames : HandlerCtx[n] \in {"getSession", "outerGetter"}
    /\ okNames \subseteq {cfg.database}

\* C9 amended: FromContext(ctx, name) panics, naming the database, exactly
\* when ctx holds no value of the getter type under the key of name, and the
\* panicking call returns no session and copies none.  In the context the
\* middleware builds for database D, FromContext(ctx, D) does not panic, and
\* FromContext(ctx, E) panics for every E other than D under which the
\* incoming request context holds no accessor (an enclosing middleware for E
\* leaves one there).
C9_PanicIffNoAccessor ==
    /\ [](/\ panicked # NoPanic =>
               /\ panicked \in Names
               /\ HandlerCtx[panicked] \in {"none", "other"}
               /\ panicked # cfg.database
          /\ \A n \in okNames :
               HandlerCtx[n] \in {"getSession", "outerGetter"}
          /\ \A e \in Names \ {cfg.database} :
               baseCtx[e] # "outerGetter" => e \notin okNames)
    /\ [][(panicked = NoPanic /\ panicked' # NoPanic) =>
             /\ UNCHANGED <<sess, newSession, rets, nAcc, okNames>>
             /\ \A q \in Procs : hpc'[q] \in {hpc[q], "done"}
             /\ \E p \in Procs : ops'[p] = ops[p] + 1]_vars
    /\ [][(\E p \in Procs : hpc[p] = "run" /\ hpc'[p] = "gs_check") =>
             (panicked' = panicked /\ cfg.database \in okNames')]_vars

\* the handler asked for the middleware's database and got a session, then
\* asked for a name the context holds a value of another type under
C9_Witness ==
    /\ panicked # NoPanic /\ baseCtx[panicked] = "other"
    /\ cfg.database \in okNames /\ OwnRets # {}

\* C10: every call on the real ResponseWriter is made by the coordinator,
\* after the race has resolved; the handler's Header, WriteHeader and Write
\* calls land in the shim's own header map, status and buffer.
C10_HandlerNeverTouchesRealWriter ==
    Racing =>
        /\ \A i \in DOMAIN rw.log : rw.log[i].by = "coord"
        /\ branch = "none" => rw = NewResponseWriter
        /\ tw.h = expect.hdr
        /\ ~tw.timedOut =>
              /\ tw.wbuf = expect.body
              /\ tw.wroteHeader = (expect.code # 0)
              /\ expect.code # 0 => tw.code = expect.code

\* the handler has set a header, a status and a body while the race was
\* still open
C10_Witness ==
    /\ Racing /\ branch = "none" /\ rw = NewResponseWriter
    /\ expect.hdr # EmptyHeader /\ expect.code = StatusServiceUnavailable
    /\ Len(expect.body) >= 1 /\ tw.wbuf = expect.body

\* positions of the coordinator once the timer case was taken
AfterTimerCase == {"setTimedOut", "writeError"} \cup PastSelect

\* C11: once the TimedOut branch has been taken the handler goroutine is
\* not cancelled: it can always return, its close(done) never waits for
\* anyone and moves nothing in the coordinator; copyToResponseWriter is never
\* called for the request and the real ResponseWriter is not written again
\* after the error code.
C11_AbandonedHandlerInert ==
    /\ []((Racing /\ branch = "TimedOut") =>
            /\ cpc \in AfterTimerCase
            /\ \A i \in DOMAIN rw.log : rw.log[i].op = "WriteHeader"
            /\ Len(rw.log) <= 1
            /\ (Alive /\ hpc["h"] = "run") => ENABLED HReturn)
    /\ [][(Racing /\ branch = "TimedOut") =>
             /\ branch' = "TimedOut"
             /\ cpc' \in AfterTimerCase
             /\ cpc \in PastSelect => rw' = rw
             /\ (~done /\ done') => (cpc' = cpc /\ rw' = rw /\ tw' = tw)]_vars

\* the timer fired while the coordinator was blocked, the request was
\* answered and released, and the handler went on calling the shim and
\* returned afterwards
C11_Witness ==
    /\ Racing /\ Returned /\ branch = "TimedOut"
    /\ race.first = "timer" /\ race.parked
    /\ done /\ hpc["h"] = "done" /\ ops["h"] >= 2
    /\ rw.log = TimedOutLog

\* ------------------------------------------------- fair scheduling
\* the steps ServeHTTP takes on its own goroutine
CoordinatorStep ==
    \/ Serve
    \/ SelectDone
    \/ SelectTimer
    \/ SelectPark
    \/ Copy
    \/ SetTimedOut
    \/ WriteError
    \/ Release
    \/ ReleaseFinish

\* the Go scheduler keeps running the coordinator goroutine while it has a
\* step to take, and the runtime delivers the armed timer; nothing is
\* assumed of the wrapped handler, which may block forever
\* the requests the racing middlewares serve, with no accessor of an
\* enclosing middleware in the incoming context
RaceInit ==
    /\ Init
    /\ impl \in RacingImpls
    /\ \A n \in Names : baseCtx[n] = "none"

RaceNext ==
    \/ Serve
    \/ SelectDone
    \/ SelectTimer
    \/ SelectPark
    \/ TimerFire
    \/ Copy
    \/ SetTimedOut
    \/ WriteError
    \/ Release
    \/ ReleaseFinish
    \/ \E k \in HKeys, v \in HVals : HHeaderSet(k, v)
    \/ \E c \in HandlerCodes : HWriteHeader(c)
    \/ \E p \in Chunks : HWrite(p)
    \/ \E g \in Workers : HSpawn(g)
    \/ HReturn
    \/ \E g \in Workers : WExit(g)
    \/ \E p \in Procs, n \in Names : FromContext(p, n)
    \/ \E p \in Procs : GsCheck(p)
    \/ \E p \in Procs : GsSpan(p)
    \/ \E p \in Procs : GsStart(p)
    \/ \E p \in Procs : GsLock(p)
    \/ \E p \in Procs : GsCopy(p)
    \/ \E p \in Procs : GsSetSocketTimeout(p)
    \/ \E p \in Procs : GsReturn(p)

FairSpec ==
    /\ RaceInit
    /\ [][RaceNext]_vars
    /\ WF_vars(CoordinatorStep)
    /\ WF_vars(TimerFire)

\* the race has resolved and the response is on the real writer
Resolved ==
    /\ branch \in {"Completed", "TimedOut"}
    /\ cpc \in PastSelect
    /\ Cardinality(WriteHeaderCalls(rw)) = 1

\* C12: when the timer eventually fires and the coordinator is scheduled
\* fairly, every request of a process that keeps running (no goroutine has
\* panicked, which ends the process) eventually leaves Running for exactly
\* one of Completed and TimedOut, which it then keeps, and the response is
\* written to the real ResponseWriter; nothing is required of the wrapped
\* handler, which may never return.
C12_RaceEventuallyResolves ==
    /\ (Racing /\ cpc = "entry") ~> (~Alive \/ Resolved)
    /\ [][branch # "none" => branch' = branch]_vars

\* the request was answered on the timeout branch while the handler is
\* still running and done is still open
C12_Witness ==
    /\ Racing /\ Resolved /\ branch = "TimedOut" /\ ~done /\ hpc["h"] = "run"
    /\ rw.log = TimedOutLog

\* C13: on every session copy the accessor creates, SetSocketTimeout is
\* called exactly once, at creation (it is missing only while the creating
\* invocation, holding sessionMutex, stands right before the call), with the
\* configured Timeout, which is also the duration of the race timer;
\* invocations that return the existing session do not call it again.
C13_SocketTimeoutOnceAtCreation ==
    Racing =>
        /\ timer # "unset" => timerDur = cfg.timeout
        /\ \A i \in DOMAIN sess :
             /\ sess[i].sst <= 1
             /\ sess[i].sst = 1 =>
                   (sess[i].dur = cfg.timeout /\ sess[i].dur = timerDur)
             /\ sess[i].sst = 0 =>
                   /\ newSession = i
                   /\ \E p \in Procs : hpc[p] = "gs_sst" /\ sessionMutex = p

\* a session was created by one invocation and returned again by a later
\* one
C13_Witness ==
    /\ Racing /\ nAcc >= 2 /\ \A p \in Procs : hpc[p] \notin GsPcs
    /\ Len(sess) = 1 /\ sess[1].sst = 1 /\ sess[1].dur = timerDur
    /\ OwnRets = {1}

\* ServeHTTP has returned and every goroutine of the handler has ended
Quiescent == Returned /\ \A p \in Procs : hpc[p] \in {"unborn", "done"}

\* C14 as stated: every session copy the accessor creates for a request, at
\* any point and by any goroutine of the handler, also after the race has
\* resolved on the timeout branch, is eventually closed exactly once: when
\* the request is over and nothing is left to run, no copy is open.
C14_Original ==
    (Racing /\ Quiescent) => \A i \in DOMAIN sess : sess[i].closed = 1

\* C15 as stated: under every interleaving of concurrent accessor
\* invocations, no invocation returns a session handle to its caller before
\* SetSocketTimeout(timeout) has completed on that handle.
C15_Original ==
    [][Racing =>
         \A i \in (rets' \ rets) \cap DOMAIN sess' : sess'[i].sst >= 1]_vars

\* positions of an accessor invocation that holds sessionMutex
CreatingPcs == {"gs_copy", "gs_sst", "gs_ret"}

\* C16 as stated: release and session creation exclude each other through
\* sessionMutex: when release reads the slot no creation is under way, the
\* slot does not hold a partially created session, and every session whose
\* creation took the lock before release started has run through Copy and
\* SetSocketTimeout and is closed by this release.
C16_Original ==
    [][(Racing /\ cpc = "release" /\ cpc' # "release") =>
         /\ \A p \in Procs : hpc[p] \notin CreatingPcs
         /\ newSession # Nil => sess[newSession].sst = 1
         /\ \A i \in DOMAIN sess :
              (sess[i].sst = 1 /\ sess'[i].closed = 1)]_vars

\* C17: the coordinator closes the session only after the response is on
\* the real ResponseWriter: whenever a session of the request has been
\* closed, ServeHTTP is past the select and copyToResponseWriter has made
\* its calls (Completed) or WriteHeader(errorCode) has been called
\* (TimedOut).
C17_CloseAfterResponse ==
    (Racing /\ \E i \in DOMAIN sess : sess[i].closed >= 1) =>
        /\ cpc \in {"finish", "returned"}
        /\ \/ branch = "Completed" /\ rw.log = CompletedLog
           \/ branch = "TimedOut" /\ rw.log = TimedOutLog

\* a session was created, the request timed out and the session was closed
C17_Witness ==
    /\ Racing /\ Returned /\ branch = "TimedOut"
    /\ Len(sess) = 1 /\ sess[1].closed = 1 /\ rw.log = TimedOutLog

\* the shim's contents have been copied to the real writer
Flushed == WriteCalls(rw) # {}

\* C18: copyToResponseWriter is called at most once for a timeoutWriter and
\* never on one whose timedOut flag is set, and setTimedOut is never called
\* on one that has been flushed: no reachable state has both 'flushed' and
\* 'timed out'.
C18_FlushedXorTimedOut ==
    Racing =>
        /\ Cardinality(WriteCalls(rw)) <= 1
        /\ Cardinality({i \in DOMAIN rw.log : rw.log[i].op = "Header"}) <= 1
        /\ ~(Flushed /\ tw.timedOut)
        /\ cpc = "copy" => (~tw.timedOut /\ ~Flushed)
        /\ cpc = "setTimedOut" => (~Flushed /\ ~tw.timedOut)

\* the shim was flushed on the done case although the timer had fired too
C18_Witness ==
    /\ Racing /\ Returned /\ Flushed /\ ~tw.timedOut
    /\ timer = "fired" /\ race.first = "timer"

\* the status codes a handler may pass to WriteHeader
AnyCodes == HandlerCodes \cup {StatusTeapot}

\* C19: WriteHeader(code) changes nothing when the shim is timed out or has
\* a header recorded, and otherwise records code and sets wroteHeader; so
\* the recorded status is the one of the handler's first header-recording
\* call and no later call changes it.
C19_WriteHeaderFirstWins ==
    /\ [](/\ \A c \in AnyCodes :
               WriteHeader(tw, c) =
                  IF tw.timedOut \/ tw.wroteHeader THEN tw
                  ELSE [tw EXCEPT !.wroteHeader = TRUE, !.code = c]
          /\ (Racing /\ tw.wroteHeader) => tw.code = expect.code)
    /\ [][(tw.wroteHeader \/ tw.timedOut) =>
             (tw'.wroteHeader = tw.wroteHeader /\ tw'.code = tw.code)]_vars

\* the handler recorded 503 and made two more calls on the shim
C19_Witness ==
    /\ Racing /\ tw.wroteHeader /\ tw.code = StatusServiceUnavailable
    /\ ops["h"] = 3 /\ Len(tw.wbuf) = 1 /\ tw.h = EmptyHeader
    /\ hpc = [p \in Procs |-> IF p = "h" THEN "run" ELSE "unborn"]
    /\ nAcc = 0 /\ okNames = {}

\* the step is a Write of the handler on the shim
HandlerWriteStep == ops'["h"] = ops["h"] + 1 /\ lastCall'.op = "Write"

\* C20: Write(p) on a shim that is not timed out appends exactly p to the
\* body buffer and returns (len(p), nil); when no header was recorded it
\* first records 200 and sets wroteHeader, and a recorded status is kept; a
\* WriteHeader after it has no effect.
C20_WriteAppendsAndRecordsOK ==
    /\ [](~tw.timedOut =>
            \A p \in Chunks :
               LET r == Write(tw, p)
               IN  /\ r.n = Len(p) /\ r.err = "nil"
                   /\ r.tw = [tw EXCEPT
                                !.wbuf = tw.wbuf \o p,
                                !.wroteHeader = TRUE,
                                !.code = IF tw.wroteHeader THEN tw.code
                                         ELSE StatusOK]
                   /\ \A c \in AnyCodes : WriteHeader(r.tw, c) = r.tw)
    /\ [][(Racing /\ ~tw.timedOut /\ HandlerWriteStep) =>
             /\ lastCall'.n = 1 /\ lastCall'.err = "nil"
             /\ Len(tw'.wbuf) = Len(tw.wbuf) + 1
             /\ SubSeq(tw'.wbuf, 1, Len(tw.wbuf)) = tw.wbuf
             /\ tw'.wroteHeader
             /\ tw'.code = (IF tw.wroteHeader THEN tw.code ELSE StatusOK)
             /\ rw' = rw]_vars

\* the handler's only calls were two Writes: the status 200 is the implicit
\* one
C20_Witness ==
    /\ Racing /\ ~tw.timedOut /\ ops["h"] = 2 /\ Len(tw.wbuf) = 2
    /\ lastCall = [op |-> "Write", n |-> 1, err |-> "nil"]
    /\ tw.wroteHeader /\ tw.code = StatusOK

\* C21: copyToResponseWriter first copies every captured header entry into
\* the real writer's header map, then calls WriteHeader with the recorded
\* status (200 when the handler never recorded one), then calls Write with
\* the buffered body: applied to any reachable shim it appends these three
\* calls in this order, and the header map holds the handler's entries when
\* the status is written.
C21_CopyHeadersStatusBody ==
    Racing =>
        LET r == copyToResponseWriter(tw, rw)
            n == Len(rw.log)
        IN  /\ Len(r.w.log) = n + 3
            /\ SubSeq(r.w.log, 1, n) = rw.log
            /\ r.w.log[n + 1] = Call("Header", tw.h, "coord")
            /\ r.w.log[n + 2] =
                  Call("WriteHeader",
                       IF tw.wroteHeader THEN tw.code ELSE StatusOK, "coord")
            /\ r.w.log[n + 3] = Call("Write", tw.wbuf, "coord")
            /\ \A k \in HKeys :
                  r.w.hdr[k] = IF tw.h[k] # "" THEN tw.h[k] ELSE rw.hdr[k]
            /\ (branch = "Completed" /\ cpc \in PastSelect) =>
                  /\ rw.log = <<Call("Header", tw.h, "coord"),
                                Call("WriteHeader", tw.code, "coord"),
                                Call("Write", tw.wbuf, "coord")>>
                  /\ rw.hdr = tw.h

\* the handler set a header and a body and no status: the copy wrote 200
C21_Witness ==
    /\ Racing /\ Returned /\ branch = "Completed"
    /\ ~tw.wroteHeader /\ expect.code = 0 /\ tw.h # EmptyHeader
    /\ rw.log[2] = Call("WriteHeader", StatusOK, "coord")
    /\ rw.hdr = tw.h

\* positions in the real writer's call log of the calls named op
CallsOf(op) == {i \in DOMAIN rw.log : rw.log[i].op = op}

\* C22 as stated: on the Completed branch the shim's output reaches the
\* real writer in the order status code, then headers, then body, exactly
\* once.
C22_Original ==
    (Racing /\ Returned /\ branch = "Completed") =>
        /\ \A op \in {"WriteHeader", "Header", "Write"} :
              Cardinality(CallsOf(op)) = 1
        /\ \A i \in CallsOf("WriteHeader"), j \in CallsOf("Header"),
              k \in CallsOf("Write") : i < j /\ j < k

\* C22 amended: on the Completed branch the shim's output reaches the real
\* writer in the order headers, then status code, then body, exactly once.
C22_HeadersThenStatusThenBody ==
    (Racing /\ Returned /\ branch = "Completed") =>
        /\ \A op \in {"WriteHeader", "Header", "Write"} :
              Cardinality(CallsOf(op)) = 1
        /\ \A i \in CallsOf("Header"), j \in CallsOf("WriteHeader"),
              k \in CallsOf("Write") : i < j /\ j < k

\* a completed request whose handler recorded a status, a header and a body
C22_Witness ==
    /\ Racing /\ Returned /\ branch = "Completed"
    /\ tw.wroteHeader /\ tw.code = StatusServiceUnavailable
    /\ tw.h # EmptyHeader /\ Len(tw.wbuf) = 1
    /\ Len(rw.log) = 3

\* C23: the timedOut flag starts false, setTimedOut sets it, and none of
\* Write, WriteHeader, Header, copyToResponseWriter and setTimedOut resets
\* it: no step takes it from true to false, and on a timed-out shim every
\* Write is rejected and changes nothing.
C23_TimedOutMonotone ==
    /\ [](/\ ~NewTimeoutWriter.timedOut
          /\ cpc = "entry" => ~tw.timedOut
          /\ setTimedOut(tw).timedOut
          /\ copyToResponseWriter(tw, rw).tw.timedOut = tw.timedOut
          /\ \A c \in AnyCodes : WriteHeader(tw, c).timedOut = tw.timedOut
          /\ \A k \in HKeys, v \in HVals :
                HeaderSet(tw, k, v).timedOut = tw.timedOut
          /\ \A p \in Chunks :
                /\ Write(tw, p).tw.timedOut = tw.timedOut
                /\ tw.timedOut =>
                      Write(tw, p) =
                         [tw |-> tw, n |-> 0, err |-> "ErrHandlerTimeout"])
    /\ [][tw.timedOut => tw'.timedOut]_vars

\* the shim was timed out and the handler kept calling it
C23_Witness ==
    /\ Racing /\ Returned /\ tw.timedOut /\ branch = "TimedOut"
    /\ ops["h"] = 3 /\ tw.wbuf = <<>> /\ Len(expect.body) = 3
    /\ lastCall.err = "ErrHandlerTimeout"

\* C24: on the TimedOut branch the shim is marked timed out before the
\* error status is written to the real ResponseWriter: whenever
\* WriteHeader(errorCode) has been called on the real writer the shim is
\* timed out, and from then on no Write or WriteHeader of the handler
\* changes the shim's buffer, status or wroteHeader flag.
C24_TimedOutBeforeErrorStatus ==
    /\ []((Racing /\ branch = "TimedOut") =>
            /\ rw.log # <<>> => tw.timedOut
            /\ cpc = "writeError" => tw.timedOut)
    /\ [][(Racing /\ branch = "TimedOut" /\ rw.log # <<>>) =>
             /\ tw'.wbuf = tw.wbuf
             /\ tw'.code = tw.code
             /\ tw'.wroteHeader = tw.wroteHeader
             /\ HandlerWriteStep => lastCall'.err = "ErrHandlerTimeout"]_vars

\* the error status is on the real writer and the handler has called Write
\* since
C24_Witness ==
    /\ Racing /\ branch = "TimedOut" /\ rw.log = TimedOutLog
    /\ lastCall.err = "ErrHandlerTimeout" /\ hpc["h"] = "run"
    /\ Len(tw.wbuf) = 1 /\ Len(expect.body) = 2

\* C25: on the TimedOut branch the real writer's header map stays as it
\* was and Write is never called on it: what the handler put into the shim
\* is not visible on the real writer, whose only call is
\* WriteHeader(errorCode).
C25_TimedOutLeavesRealWriter ==
    (Racing /\ branch = "TimedOut") =>
        /\ rw.hdr = NewResponseWriter.hdr
        /\ CallsOf("Write") = {} /\ CallsOf("Header") = {}
        /\ \A i \in DOMAIN rw.log :
              rw.log[i] = Call("WriteHeader", cfg.errorCode, "coord")
        /\ Len(rw.log) <= 1
        /\ Returned => Len(rw.log) = 1

\* the handler had put a header, a status other than the error code and a
\* body into the shim before the timeout
C25_Witness ==
    /\ Racing /\ Returned /\ branch = "TimedOut"
    /\ tw.h # EmptyHeader /\ tw.wroteHeader /\ tw.code # cfg.errorCode
    /\ Len(tw.wbuf) = 1 /\ rw.hdr = EmptyHeader /\ rw.log = TimedOutLog

\* ------------------------------------------- the shim's mutex discipline
\* the methods of timeoutWriter
TwOps == {"setTimedOut", "copyToResponseWriter", "Header", "Write",
          "WriteHeader"}

LocksMuButSetTimedOut(op) ==
    op \in {"copyToResponseWriter", "Write", "WriteHeader"}

\* the methods that run between tw.mu.Lock() and the deferred
\* tw.mu.Unlock(); Header() returns the map without taking the mutex and
\* its caller changes the map outside of it
LocksMu(op) ==
    op \in {"setTimedOut", "copyToResponseWriter", "Write", "WriteHeader"}

\* the fields of the shim a method reads or writes
Fields(op) ==
    CASE op = "setTimedOut" -> {"timedOut"}
      [] op = "copyToResponseWriter" -> {"h", "wroteHeader", "code", "wbuf"}
      [] op = "Header" -> {"h"}
      [] op = "Write" -> {"timedOut", "wroteHeader", "code", "wbuf"}
      [] op = "WriteHeader" -> {"timedOut", "wroteHeader", "code"}

\* the step is a call of the shim's method op
StepIs(op) ==
    CASE op = "setTimedOut" -> SetTimedOut
      [] op = "copyToResponseWriter" -> Copy
      [] op = "Header" ->
            HandlerWriter(impl) = "tw" /\ \E k \in HKeys, v \in HVals : HHeaderSet(k, v)
      [] op = "Write" ->
            HandlerWriter(impl) = "tw" /\ \E p \in Chunks : HWrite(p)
      [] op = "WriteHeader" ->
            HandlerWriter(impl) = "tw" /\ \E c \in HandlerCodes : HWriteHeader(c)

\* the shim method the coordinator goroutine is about to run
CoordAccess ==
    IF cpc = "copy" THEN {"copyToResponseWriter"}
    ELSE IF cpc = "setTimedOut" THEN {"setTimedOut"}
    ELSE {}

\* the shim methods the handler goroutine may be running
HandlerAccess ==
    IF Racing /\ Alive /\ hpc["h"] = "run"
    THEN {"Header", "Write", "WriteHeader"} ELSE {}

\* no two accesses of one field by the two goroutines can happen at once
\* unless both hold the mutex
RaceFree ==
    \A a \in CoordAccess, b \in HandlerAccess :
        Fields(a) \cap Fields(b) # {} => (LocksMu(a) /\ LocksMu(b))

\* C26 as stated: every read and write of the shim's state (header set,
\* body buffer, status code, wroteHeader, timedOut) by the handler goroutine
\* or by the coordinator is made while holding the shim's mutex, and the two
\* goroutines never access a field at once without it.
C26_Original ==
    [][Racing =>
         /\ \A op \in TwOps : StepIs(op) => LocksMu(op)
         /\ RaceFree]_vars

\* C26 amended: every read and write of the body buffer, the status code,
\* the wroteHeader flag and the timedOut flag is made while holding the
\* shim's mutex.  The captured header set is handed out by Header() and
\* changed by the handler without the mutex; the coordinator reads it, under
\* the mutex, only in copyToResponseWriter, which runs after the handler
\* goroutine has returned and closed done.  So no reachable state has one
\* of the two goroutines accessing a field without the mutex while the
\* other accesses it.
C26_MutexOrHandlerDone ==
    /\ [](Racing =>
            /\ RaceFree
            /\ cpc = "copy" => (done /\ hpc["h"] = "done"))
    /\ [][Racing =>
            /\ \A op \in TwOps :
                 StepIs(op) =>
                    \/ LocksMu(op)
                    \/ /\ op = "Header"
                       /\ \A a \in CoordAccess : "h" \notin Fields(a)
            /\ \A op \in TwOps :
                 (StepIs(op) /\ Fields(op) # {"h"}) => LocksMu(op)]_vars

\* the handler changed the header set while the coordinator was already
\* blocked in the select, and the coordinator copied it after done
C26_Witness ==
    /\ Racing /\ Returned /\ branch = "Completed"
    /\ race.first = "done" /\ race.parked /\ timer = "armed"
    /\ tw.h # EmptyHeader /\ rw.hdr = tw.h /\ ops["h"] = 1

\* ------------------------------------------------------------------- C27
\* the number of times each span of the request was finished: the
\* request-level span, then one per accessor invocation
FinishCounts ==
    IF trace.libStarted THEN <<trace.libFin>> \o trace.fin ELSE trace.fin

\* C27 as stated: in the traced SessionHandler no span is ever finished
\* twice, and once ServeHTTP has returned and every handler goroutine has
\* ended, the request-level span and the span of every accessor invocation
\* have been finished exactly once, whether or not a session was requested
\* and whether or not an accessor ran after the timeout.
C27_Original ==
    Traced(impl) =>
        /\ \A i \in DOMAIN FinishCounts : FinishCounts[i] <= 1
        /\ Quiescent => \A i \in DOMAIN FinishCounts : FinishCounts[i] = 1

\* ------------------------------------------------------------------- C30
\* the lazy-timer request is over: ServeHTTP returned, every handler
\* goroutine ended, and every timer was stopped or has run its function
LzQuiet ==
    /\ impl = "lazytimer"
    /\ Quiescent
    /\ \A i \in DOMAIN ctimers : ctimers[i] \in {"fired", "stopped"}

\* C30 as stated, for the injector that creates session and timer lazily:
\* under every interleaving of the timer callbacks and the handler's return
\* no session of the request is closed twice, and once the request is over
\* every session it created has been closed exactly once.
C30_Original ==
    /\ impl = "lazytimer" => \A i \in DOMAIN sess : sess[i].closed <= 1
    /\ LzQuiet => \A i \in DOMAIN sess : sess[i].closed = 1

\* ------------------------------------- the admission-controlled injectors
\* several requests served at once by one injector of AdmImpls
AdmInit ==
    /\ impl \in AdmImpls
    /\ cfg \in [database : Databases, timeout : {RequestTimeoutDuration},
                sessionLimit : Limits]
    /\ baseCtx = [n \in Names |-> "none"]
    /\ adm = NewAdmission(cfg.sessionLimit)
    /\ pool = NoPools
    /\ th = NoTest
    /\ gcn = NoWalk
    /\ cpc = "entry"
    /\ branch = "none"
    /\ done = FALSE
    /\ timer = "unset"
    /\ timerDur = ""
    /\ ctimers = <<>>
    /\ sessionTimer = Nil
    /\ race = NoRace
    /\ tw = NewTimeoutWriter
    /\ rw = NewResponseWriter
    /\ newSession = Nil
    /\ sessionMutex = "free"
    /\ sess = <<>>
    /\ hpc = [p \in Procs |-> "unborn"]
    /\ ops = [p \in Procs |-> 0]
    /\ lastCall = NoCall
    /\ rets = {}
    /\ nAcc = 0
    /\ overlap = FALSE
    /\ okNames = {}
    /\ panicked = NoPanic
    /\ expect = NoExpect
    /\ trace = NoTrace

\* the context of request r ends, before ServeHTTP is entered or while it
\* waits for a permit: the client went away or a deadline passed (nothing in
\* ServeHTTP reads the context after the acquire)
AdmCancel(r) ==
    /\ adm.req[r].pc \in {"idle", "acquire"}
    /\ ~adm.req[r].ctxDone
    /\ adm' = [adm EXCEPT !.req[r].ctxDone = TRUE]
    /\ UNCHANGED <<cfgVars, reqVars, libVars>>

\* ServeHTTP is entered and asks the semaphore for a permit: the acquire
\* fails at once on a context that is already done (it may also still
\* succeed without blocking), takes a free permit, or queues the request
AdmServe(r) ==
    /\ adm.req[r].pc = "idle"
    /\ \/ /\ adm.req[r].ctxDone
          /\ adm' = [adm EXCEPT
                       !.req[r] = Refused(impl, InjectorSessionLimit, @)]
       \/ /\ CanAcquire(adm.sem)
          /\ adm' = [adm EXCEPT !.sem = AcquireNow(@),
                                !.req[r].acquired = @ + 1,
                                !.req[r].pc = "granted"]
       \/ /\ ~CanAcquire(adm.sem)
          /\ adm' = [adm EXCEPT !.sem = Enqueue(@, r),
                                !.req[r].pc = "acquire"]
    /\ UNCHANGED <<cfgVars, reqVars, libVars>>

\* the blocked acquire returns ctx.Err(): ServeHTTP answers 500 and returns
AdmAcquireErr(r) ==
    /\ adm.req[r].pc = "acquire"
    /\ adm.req[r].ctxDone
    /\ adm' = [adm EXCEPT !.sem = GiveUp(@, r),
                          !.req[r] = Refused(impl, InjectorSessionLimit, @)]
    /\ UNCHANGED <<cfgVars, reqVars, libVars>>

\* the blocked acquire returns nil: a release handed the request a permit
AdmAcquired(r) ==
    /\ adm.req[r].pc = "acquire"
    /\ r \in adm.sem.ready
    /\ adm' = [adm EXCEPT !.sem.ready = @ \ {r},
                          !.req[r].acquired = @ + 1,
                          !.req[r].pc = "granted"]
    /\ UNCHANGED <<cfgVars, reqVars, libVars>>

\* Copy(), SetSocketTimeout, time.AfterFunc, then the wrapped handler is
\* called with the session in its context
AdmStart(r) ==
    /\ adm.req[r].pc = "granted"
    /\ adm' = [adm EXCEPT !.req[r].copies = @ + 1,
                          !.req[r].sst = @ + 1,
                          !.req[r].timer = "armed",
                          !.req[r].invoked = TRUE,
                          !.req[r].pc = "handler"]
    /\ UNCHANGED <<cfgVars, reqVars, libVars>>

\* the timer of request r expires: its function starts in a new goroutine
AdmTimerFire(r) ==
    /\ adm.req[r].timer = "armed"
    /\ adm' = [adm EXCEPT !.req[r].timer = "running"]
    /\ UNCHANGED <<cfgVars, reqVars, libVars>>

\* the timer's function calls newSession.Close(): a copied SessionPool
\* first gives its permit back, a plain session is closed at once
AdmCallback(r) ==
    /\ adm.req[r].timer = "running"
    /\ IF impl = "sessionpool"
       THEN LET c == CloseRelease(impl, adm.sem, adm.req[r])
            IN  adm' = [adm EXCEPT
                          !.sem = c[1],
                          !.req[r] = [c[2] EXCEPT !.timer = "closing"]]
       ELSE adm' = [adm EXCEPT
                      !.req[r] = [CloseSession(@) EXCEPT !.timer = "fired"]]
    /\ UNCHANGED <<cfgVars, reqVars, libVars>>

\* the rest of SessionPool.Close in the timer's function: s.session.Close()
AdmCallbackClose(r) ==
    /\ adm.req[r].timer = "closing"
    /\ adm' = [adm EXCEPT
                 !.req[r] = [CloseSession(@) EXCEPT !.timer = "fired"]]
    /\ UNCHANGED <<cfgVars, reqVars, libVars>>

\* the wrapped handler panics: ServeHTTP unwinds, running only what it
\* deferred; the timer stays as it is
AdmHandlerPanic(r) ==
    /\ adm.req[r].pc = "handler"
    /\ LET d == DeferredRelease(impl, adm.sem, adm.req[r])
       IN  adm' = [adm EXCEPT !.sem = d[1],
                              !.req[r] = [d[2] EXCEPT !.pc = "returned"]]
    /\ UNCHANGED <<cfgVars, reqVars, libVars>>

\* the wrapped handler returns and ServeHTTP runs
\* if timer.Stop() { newSession.Close() }: when Stop returns true the Close
\* call starts, and a copied SessionPool gives its permit back; when it
\* returns false ServeHTTP returns and runs what it deferred
AdmStop(r) ==
    /\ adm.req[r].pc = "handler"
    /\ IF adm.req[r].timer = "armed"
       THEN LET c == CloseRelease(impl, adm.sem,
                                  [adm.req[r] EXCEPT !.timer = "stopped"])
            IN  adm' = [adm EXCEPT !.sem = c[1],
                                   !.req[r] = [c[2] EXCEPT !.pc = "close"]]
       ELSE LET d == DeferredRelease(impl, adm.sem, adm.req[r])
            IN  adm' = [adm EXCEPT !.sem = d[1],
                                   !.req[r] = [d[2] EXCEPT !.pc = "returned"]]
    /\ UNCHANGED <<cfgVars, reqVars, libVars>>

\* the Close call of the regular path reaches the mgo session, then
\* ServeHTTP returns and runs what it deferred
AdmClose(r) ==
    /\ adm.req[r].pc = "close"
    /\ LET d == DeferredRelease(impl, adm.sem, CloseSession(adm.req[r]))
       IN  adm' = [adm EXCEPT !.sem = d[1],
                              !.req[r] = [d[2] EXCEPT !.pc = "returned"]]
    /\ UNCHANGED <<cfgVars, reqVars, libVars>>

AdmNext ==
    \/ \E r \in Requests : AdmCancel(r)
    \/ \E r \in Requests : AdmServe(r)
    \/ \E r \in Requests : AdmAcquireErr(r)
    \/ \E r \in Requests : AdmAcquired(r)
    \/ \E r \in Requests : AdmStart(r)
    \/ \E r \in Requests : AdmTimerFire(r)
    \/ \E r \in Requests : AdmCallback(r)
    \/ \E r \in Requests : AdmCallbackClose(r)
    \/ \E r \in Requests : AdmHandlerPanic(r)
    \/ \E r \in Requests : AdmStop(r)
    \/ \E r \in Requests : AdmClose(r)

AdmSpec == AdmInit /\ [][AdmNext]_vars

\* permits held according to the requests: obtained and not yet released
HeldBy(r) == adm.req[r].acquired - adm.req[r].released

\* a request is over when ServeHTTP returned and its timer can no longer
\* run its function
AdmOver(r) ==
    /\ adm.req[r].pc = "returned"
    /\ adm.req[r].timer \in {"unset", "fired", "stopped"}

\* ------------------------------------------------------------------- C28
\* C28: in the admission-controlled injectors a request whose acquire
\* failed is answered with status 500 as the first call on the response,
\* its handler is never invoked, no session copy is created for it, no
\* timer is started, and no permit is obtained or released for it.
C28_RefusedRequestIsInert ==
    \A r \in Requests :
        adm.req[r].err =>
            /\ adm.req[r].pc = "returned"
            /\ adm.req[r].ctxDone
            /\ adm.req[r].resp # <<>>
            /\ adm.req[r].resp[1] = <<"WriteHeader", StatusInternalServerError>>
            /\ \A k \in DOMAIN adm.req[r].resp :
                 k > 1 => adm.req[r].resp[k][1] = "Write"
            /\ ~adm.req[r].invoked
            /\ adm.req[r].copies = 0
            /\ adm.req[r].sst = 0
            /\ adm.req[r].closed = 0
            /\ adm.req[r].timer = "unset"
            /\ adm.req[r].acquired = 0
            /\ adm.req[r].released = 0

\* a request was refused with the 500 response while every permit was held
\* by requests whose handlers were still running
C28_Witness ==
    \E r \in Requests :
        /\ adm.req[r].err
        /\ adm.req[r].resp = Refusal(impl, InjectorSessionLimit)
        /\ adm.sem.cur = adm.sem.size
        /\ \E o \in Requests \ {r} :
             adm.req[o].pc = "handler" /\ adm.req[o].copies = 1

\* ------------------------------------------------------------------- C29
\* C29: in the admission-controlled injectors every request obtains at most
\* one permit and releases it at most once, never before obtaining it; the
\* semaphore's count is the number of permits obtained and not yet released
\* (plus those handed to waiters that have not resumed), so it stays between
\* zero and the configured limit; and once every request that was served is
\* over, each obtained permit has been released exactly once and the count
\* is zero.
C29_PermitsReleasedExactlyOnce ==
    /\ \A r \in Requests :
         /\ adm.req[r].acquired \in {0, 1}
         /\ adm.req[r].released \in {0, 1}
         /\ adm.req[r].released <= adm.req[r].acquired
         /\ AdmOver(r) => adm.req[r].released = adm.req[r].acquired
    /\ adm.sem.cur >= 0
    /\ adm.sem.cur <= cfg.sessionLimit
    /\ adm.sem.cur = Cardinality({r \in Requests : HeldBy(r) = 1})
                     + Cardinality(adm.sem.ready)
    /\ (\A r \in Requests : adm.req[r].pc = "idle" \/ AdmOver(r)) =>
          adm.sem.cur = 0

\* every request is over and the semaphore is free again, after one request
\* had its session closed by the timer's function, another by the regular
\* path, and a third was refused
C29_Witness ==
    /\ \A r \in Requests : AdmOver(r)
    /\ adm.sem.cur = 0
    /\ \E a, b, c \in Requests :
         /\ adm.req[a].timer = "fired" /\ adm.req[a].released = 1
         /\ adm.req[b].timer = "stopped" /\ adm.req[b].released = 1
         /\ adm.req[c].err

\* ------------------------------------------------------------------- C31
\* session copies of the requests in S that were created and not yet closed
RECURSIVE OpenCopies(_)
OpenCopies(S) ==
    IF S = {} THEN 0
    ELSE LET r == CHOOSE x \in S : TRUE
         IN  (adm.req[r].copies - adm.req[r].closed) + OpenCopies(S \ {r})

\* C31 as stated: in the injectors limited by a semaphore, in every
\* reachable state the number of session copies created and not yet closed
\* is at most SessionLimit.
C31_Original ==
    impl \in AdmImpls => OpenCopies(Requests) <= cfg.sessionLimit

\* --------------------------------------------- SessionPool used directly
\* no request is being served
IdleRequest ==
    /\ cpc = "entry"
    /\ branch = "none"
    /\ done = FALSE
    /\ timer = "unset"
    /\ timerDur = ""
    /\ ctimers = <<>>
    /\ sessionTimer = Nil
    /\ race = NoRace
    /\ tw = NewTimeoutWriter
    /\ rw = NewResponseWriter
    /\ newSession = Nil
    /\ sessionMutex = "free"
    /\ sess = <<>>
    /\ hpc = [p \in Procs |-> "unborn"]
    /\ ops = [p \in Procs |-> 0]
    /\ lastCall = NoCall
    /\ rets = {}
    /\ nAcc = 0
    /\ overlap = FALSE
    /\ okNames = {}
    /\ panicked = NoPanic
    /\ expect = NoExpect
    /\ trace = NoTrace

PoolIds == 1 .. (MaxCopies + 1)

\* a root pool made by NewSessionPool with a limit of Limits
PoolInit ==
    /\ impl = "sessionpool"
    /\ cfg \in [database : Databases, timeout : {RequestTimeoutDuration},
                sessionLimit : Limits]
    /\ baseCtx = [n \in Names |-> "none"]
    /\ IdleRequest
    /\ adm = NoAdmission
    /\ pool = NewPools(cfg.sessionLimit)
    /\ th = NoTest
    /\ gcn = NoWalk

\* a caller invokes CopyWithCtx on pool p: a copy returns itself; on the
\* root pool the acquire fails only on a context that is done and succeeds
\* only when a permit is free (otherwise the caller stays blocked)
PoolCopyWithCtx(p, ctxDone) ==
    /\ ~pool.panicked
    /\ p \in DOMAIN pool.pools
    /\ \E fail \in BOOLEAN :
         /\ \/ /\ pool.pools[p].copied
               /\ ~fail
            \/ /\ ~pool.pools[p].copied
               /\ fail => ctxDone
               /\ ~fail => /\ CanAcquire(pool.sem)
                           /\ Len(pool.pools) + pool.copying <= MaxCopies
         /\ pool' = CopyWithCtx(pool, p, ctxDone, fail)
    /\ UNCHANGED <<cfgVars, reqVars, adm, th, gcn>>

\* a CopyWithCtx call that holds its permit copies the session of the root
\* pool and returns the new pool
PoolCopySession ==
    /\ ~pool.panicked
    /\ pool.copying > 0
    /\ pool' = CopySession(pool, RootPool)
    /\ UNCHANGED <<cfgVars, reqVars, adm, th, gcn>>

\* a caller invokes Close on pool p, from any goroutine and whatever other
\* Close calls on p are in flight, and reads the flags
PoolCloseCall(p) ==
    /\ ~pool.panicked
    /\ p \in DOMAIN pool.pools
    /\ pool.started < MaxCloses
    /\ pool' = PoolCloseTest(pool, p)
    /\ UNCHANGED <<cfgVars, reqVars, adm, th, gcn>>

\* a Close call on pool p that read the flag unset sets it
PoolCloseFlagStep(p) ==
    /\ ~pool.panicked
    /\ p \in DOMAIN pool.pools
    /\ pool.closes[p].atSet > 0
    /\ pool' = PoolCloseFlag(pool, p)
    /\ UNCHANGED <<cfgVars, reqVars, adm, th, gcn>>

\* a Close call on pool p that has set the flag gives the permit back
PoolCloseReleaseStep(p) ==
    /\ ~pool.panicked
    /\ p \in DOMAIN pool.pools
    /\ pool.closes[p].atRelease > 0
    /\ pool' = PoolCloseRelease(pool, p)
    /\ UNCHANGED <<cfgVars, reqVars, adm, th, gcn>>

\* a Close call on pool p closes the mgo session and returns
PoolCloseSessionStep(p) ==
    /\ ~pool.panicked
    /\ p \in DOMAIN pool.pools
    /\ pool.closes[p].atClose > 0
    /\ pool' = PoolCloseSession(pool, p)
    /\ UNCHANGED <<cfgVars, reqVars, adm, th, gcn>>

PoolNext ==
    \/ \E p \in PoolIds, ctxDone \in BOOLEAN : PoolCopyWithCtx(p, ctxDone)
    \/ PoolCopySession
    \/ \E p \in PoolIds : PoolCloseCall(p)
    \/ \E p \in PoolIds : PoolCloseFlagStep(p)
    \/ \E p \in PoolIds : PoolCloseReleaseStep(p)
    \/ \E p \in PoolIds : PoolCloseSessionStep(p)

PoolSpec == PoolInit /\ [][PoolNext]_vars

\* ------------------------------------------------------------------- C32
\* C32: CopyWithCtx on a pool that is itself a copy returns that same pool
\* and changes neither the semaphore nor the pools nor the sessions, and
\* such a call can always return while the process runs, also when every
\* permit is taken and while Close calls are in flight;
\* CopyWithCtx on the root pool either fails on a context that is done and
\* changes nothing, or takes exactly one permit and then, the root session
\* being open, copies the session once and returns a new pool with
\* copied = true that has not released its permit; only a call on the root
\* pool ever takes a permit, and only a call that took one returns a pool.
C32_NestedCopyReturnsSelf ==
    /\ [](\A p \in DOMAIN pool.pools :
            (pool.pools[p].copied /\ ~pool.panicked) =>
                ENABLED PoolCopyWithCtx(p, FALSE))
    /\ [](pool.copying > 0 /\ ~pool.panicked => ENABLED PoolCopySession)
    /\ [][pool'.last.op = "Acquire" =>
            /\ ~pool.pools[pool'.last.p].copied
            /\ pool'.sem.cur = pool.sem.cur + 1
            /\ pool'.sem.cur <= pool.sem.size
            /\ pool'.copying = pool.copying + 1
            /\ pool'.pools = pool.pools
            /\ pool'.sessions = pool.sessions]_vars
    /\ [][pool'.last.op = "CopyWithCtx" =>
            LET p == pool'.last.p
                unchanged == /\ pool'.sem = pool.sem
                             /\ pool'.pools = pool.pools
                             /\ pool'.sessions = pool.sessions
                             /\ pool'.copying = pool.copying
            IN  IF pool.pools[p].copied
                THEN /\ pool'.last.ret = p
                     /\ ~pool'.last.err
                     /\ unchanged
                ELSE IF pool'.last.err
                THEN /\ pool'.last.ret = Nil
                     /\ pool'.last.ctxDone
                     /\ unchanged
                ELSE /\ pool.copying > 0
                     /\ pool'.copying = pool.copying - 1
                     /\ pool.sessions[pool.pools[p].session] = 0
                     /\ pool'.sem = pool.sem
                     /\ pool'.last.ret = Len(pool.pools) + 1
                     /\ Len(pool'.pools) = Len(pool.pools) + 1
                     /\ pool'.pools[pool'.last.ret] =
                          [session |-> Len(pool.sessions) + 1,
                           copied |-> TRUE, released |-> FALSE]
                     /\ \A q \in DOMAIN pool.pools :
                          pool'.pools[q] = pool.pools[q]
                     /\ pool'.sessions = Append(pool.sessions, 0)]_vars

\* CopyWithCtx was called on a copy while the limit was 1 and the only
\* permit was taken by that copy: it returned the copy itself
C32_Witness ==
    /\ pool.sem.size = 1 /\ pool.sem.cur = 1
    /\ pool.last.op = "CopyWithCtx" /\ pool.last.p # RootPool
    /\ pool.last.ret = pool.last.p
    /\ Len(pool.pools) = 2 /\ ~pool.pools[pool.last.p].released

\* ----------------------------------------------------------- mgohttptest
\* a helper of mgohttptest is called with a list of configs
TestInit ==
    /\ impl = "mgohttp"
    /\ cfg = [database |-> "db1", timeout |-> "50ms",
              errorCode |-> StatusServiceUnavailable]
    /\ baseCtx = [n \in Names |-> "none"]
    /\ IdleRequest
    /\ adm = NoAdmission
    /\ pool = NoPools
    /\ gcn = NoWalk
    /\ th \in {InitialTest("WithSessions", lv, cs) : lv \in LoopVars, cs \in CfgLists}
          \cup {InitialTest("MakeContext", "periter", cs) : cs \in CfgLists}
          \cup {InitialTest("InjectSession", "periter", cs) : cs \in CfgLists}

\* WithSessions stores one accessor per config and calls Do
ThWithSessions ==
    /\ th.fn = "WithSessions"
    /\ th.pc = "entry"
    /\ th' = [th EXCEPT !.ctx = InjectClosures(@, th.cfgs, 1),
                        !.pc = "do",
                        !.gpc["d"].pc = "idle"]
    /\ UNCHANGED <<cfgVars, reqVars, adm, pool, gcn>>

\* MakeContext copies every config's session and returns the handler
ThMakeContext ==
    /\ th.fn = "MakeContext"
    /\ th.pc = "entry"
    /\ th' = [MakeCopies(th, 1) EXCEPT !.pc = "made", !.gpc["d"].pc = "idle"]
    /\ UNCHANGED <<cfgVars, reqVars, adm, pool, gcn>>

\* InjectSession is called for every config in turn and the last context
\* is handed to the code under test
ThInjectSession ==
    /\ th.fn = "InjectSession"
    /\ th.pc = "entry"
    /\ th' = [th EXCEPT !.ctx = InjectSessions(@, th.cfgs, 1),
                        !.pc = "injected",
                        !.gpc["d"].pc = "idle"]
    /\ UNCHANGED <<cfgVars, reqVars, adm, pool, gcn>>

\* the code that holds the context starts a goroutine
ThSpawn ==
    /\ th.pc \in {"do", "made", "injected"}
    /\ th.gpc["d"].pc = "idle"
    /\ th.gpc["w"].pc = "unborn"
    /\ th' = [th EXCEPT !.gpc["w"].pc = "idle"]
    /\ UNCHANGED <<cfgVars, reqVars, adm, pool, gcn>>

\* an accessor of WithSessions starts: newSess := c.Sess.Copy()
ThCopy(g, n) ==
    /\ th.fn = "WithSessions"
    /\ th.gpc[g].pc = "idle"
    /\ th.ctx[n] # NoAccessor
    /\ th.calls < MaxCalls
    /\ th' = [th EXCEPT
                !.copies = Append(@, NewCopy(Captured(th, th.ctx[n].iter).sess,
                                             th.pc = "do")),
                !.gpc[g] = [pc |-> "copied", name |-> n,
                            sess |-> Len(th.copies) + 1],
                !.calls = @ + 1]
    /\ UNCHANGED <<cfgVars, reqVars, adm, pool, gcn>>

\* the accessor takes sessionMu
ThLock(g) ==
    /\ th.gpc[g].pc = "copied"
    /\ th.mu = "free"
    /\ th' = [th EXCEPT !.mu = g, !.gpc[g].pc = "locked"]
    /\ UNCHANGED <<cfgVars, reqVars, adm, pool, gcn>>

\* sessions = append(sessions, newSess); return newSess, releasing sessionMu
ThAppend(g) ==
    /\ th.gpc[g].pc = "locked"
    /\ th' = [th EXCEPT
                !.sessions = Append(@, th.gpc[g].sess),
                !.copies[th.gpc[g].sess].early = (th.pc = "do"),
                !.rets = @ \cup {[name |-> th.gpc[g].name, sess |-> th.gpc[g].sess]},
                !.mu = "free",
                !.gpc[g] = [pc |-> "idle", name |-> "", sess |-> Nil]]
    /\ UNCHANGED <<cfgVars, reqVars, adm, pool, gcn>>

\* an accessor of MakeContext runs: return newSess
ThGet(g, n) ==
    /\ th.fn = "MakeContext"
    /\ th.gpc[g].pc = "idle"
    /\ th.ctx[n] # NoAccessor
    /\ th.calls < MaxCalls
    /\ th' = [th EXCEPT
                !.rets = @ \cup {[name |-> n, sess |-> th.ctx[n].sess]},
                !.calls = @ + 1]
    /\ UNCHANGED <<cfgVars, reqVars, adm, pool, gcn>>

\* an accessor of InjectSession runs: return parentSession.Copy(), a new
\* copy on every call that is recorded nowhere and that nothing closes
ThInjectedCopy(g, n) ==
    /\ th.fn = "InjectSession"
    /\ th.gpc[g].pc = "idle"
    /\ th.ctx[n] # NoAccessor
    /\ th.calls < MaxCalls
    /\ th' = [th EXCEPT
                !.copies = Append(@, NewCopy(th.cfgs[th.ctx[n].iter].sess,
                                             FALSE)),
                !.rets = @ \cup {[name |-> n, sess |-> Len(th.copies) + 1]},
                !.calls = @ + 1]
    /\ UNCHANGED <<cfgVars, reqVars, adm, pool, gcn>>

\* Do returns to WithSessions; goroutines it started may still run
ThDoReturn ==
    /\ th.pc = "do"
    /\ th.gpc["d"].pc = "idle"
    /\ th' = [th EXCEPT !.pc = "closing", !.gpc["d"].pc = "done"]
    /\ UNCHANGED <<cfgVars, reqVars, adm, pool, gcn>>

\* the started goroutine ends
ThWorkerExit ==
    /\ th.gpc["w"].pc = "idle"
    /\ th' = [th EXCEPT !.gpc["w"].pc = "done"]
    /\ UNCHANGED <<cfgVars, reqVars, adm, pool, gcn>>

\* WithSessions takes sessionMu after Do
ThCloseLock ==
    /\ th.pc = "closing"
    /\ th.mu = "free"
    /\ th' = [th EXCEPT !.mu = "main", !.pc = "closeloop"]
    /\ UNCHANGED <<cfgVars, reqVars, adm, pool, gcn>>

\* WithSessions closes every recorded session and returns
ThCloseAll ==
    /\ th.pc = "closeloop"
    /\ th' = [th EXCEPT !.copies = CloseAll(@, th.sessions),
                        !.mu = "free",
                        !.pc = "returned"]
    /\ UNCHANGED <<cfgVars, reqVars, adm, pool, gcn>>

\* Close is called on the handler that MakeContext returned
ThClose ==
    /\ th.fn = "MakeContext"
    /\ th.pc = "made"
    /\ th.nClose < MaxCloses
    /\ th' = [th EXCEPT !.copies = CloseAll(@, th.sessions),
                        !.nClose = @ + 1]
    /\ UNCHANGED <<cfgVars, reqVars, adm, pool, gcn>>

TestNext ==
    \/ ThWithSessions
    \/ ThMakeContext
    \/ ThInjectSession
    \/ ThSpawn
    \/ \E g \in TestProcs, n \in Names : ThCopy(g, n)
    \/ \E g \in TestProcs : ThLock(g)
    \/ \E g \in TestProcs : ThAppend(g)
    \/ \E g \in TestProcs, n \in Names : ThGet(g, n)
    \/ \E g \in TestProcs, n \in Names : ThInjectedCopy(g, n)
    \/ ThDoReturn
    \/ ThWorkerExit
    \/ ThCloseLock
    \/ ThCloseAll
    \/ ThClose

TestSpec == TestInit /\ [][TestNext]_vars

\* ------------------------------------------------------------------- C33
\* WithSessions has returned and no goroutine is inside an accessor
ThQuiet ==
    /\ th.pc = "returned"
    /\ \A g \in TestProcs : th.gpc[g].pc \in {"unborn", "idle", "done"}

\* the copy c is in the sessions slice exactly once
Recorded(c) == Cardinality({k \in DOMAIN th.sessions : th.sessions[k] = c}) = 1

\* C33 as stated: no copy is closed before Do has returned, none is closed
\* twice, nothing is copied or recorded when no accessor was invoked, and
\* once WithSessions has returned and no accessor is in progress every copy
\* that was created while Do ran is recorded and has been closed once.
C33_Original ==
    th.fn = "WithSessions" =>
        /\ \A c \in DOMAIN th.copies :
             /\ th.copies[c].closed <= 1
             /\ th.pc \in {"entry", "do", "closing"} => th.copies[c].closed = 0
             /\ (ThQuiet /\ th.copies[c].during) =>
                    (Recorded(c) /\ th.copies[c].closed = 1)
        /\ th.calls = 0 => (th.copies = <<>> /\ th.sessions = <<>>)

\* C33 amended: no copy is closed before Do has returned, none is closed
\* twice, nothing is copied or recorded when no accessor was invoked, and
\* every copy whose accessor invocation returned before Do returned is
\* recorded once and, when WithSessions has returned, has been closed
\* exactly once.
C33_RecordedCopiesClosedOnce ==
    th.fn = "WithSessions" =>
        /\ \A c \in DOMAIN th.copies :
             /\ th.copies[c].closed <= 1
             /\ th.pc \in {"entry", "do", "closing"} => th.copies[c].closed = 0
             /\ th.copies[c].early =>
                    /\ th.copies[c].during
                    /\ Recorded(c)
                    /\ th.pc = "returned" => th.copies[c].closed = 1
        /\ th.calls = 0 => (th.copies = <<>> /\ th.sessions = <<>>)

\* Do invoked accessors from both of its goroutines, both invocations
\* returned before Do did, and WithSessions closed both copies
C33_Witness ==
    /\ th.fn = "WithSessions" /\ ThQuiet
    /\ th.gpc["w"].pc # "unborn"
    /\ Len(th.copies) = 2
    /\ \A c \in DOMAIN th.copies :
         th.copies[c].early /\ th.copies[c].closed = 1

\* ------------------------------------------------------------------- C34
\* the configs have pairwise distinct names
DistinctNames(cfgs) ==
    \A i, j \in DOMAIN cfgs : cfgs[i].name = cfgs[j].name => i = j

\* C34 as stated: when the configs of WithSessions have pairwise distinct
\* names, every session an accessor returned for the name of a config is a
\* copy of that config's session.
C34_Original ==
    (th.fn = "WithSessions" /\ DistinctNames(th.cfgs)) =>
        \A r \in th.rets : \A i \in DOMAIN th.cfgs :
            th.cfgs[i].name = r.name =>
                th.copies[r.sess].parent = th.cfgs[i].sess

\* ------------------------------------------------------------------- C35
\* C35: MakeContext makes exactly one copy per config, of that config's
\* session, when it is called; accessor invocations make no further copy
\* and all invocations for a name return the same copy, the one made for a
\* config of that name; every Close call on the returned handler closes
\* each of the copies exactly once.
C35_OneCopyPerConfig ==
    th.fn = "MakeContext" =>
        /\ th.pc = "entry" => (th.copies = <<>> /\ th.rets = {})
        /\ th.pc = "made" =>
             /\ Len(th.copies) = Len(th.cfgs)
             /\ th.sessions = [i \in DOMAIN th.cfgs |-> i]
             /\ \A i \in DOMAIN th.cfgs :
                  /\ th.copies[i].parent = th.cfgs[i].sess
                  /\ th.copies[i].closed = th.nClose
        /\ \A r \in th.rets :
             /\ r.sess \in DOMAIN th.copies
             /\ th.cfgs[r.sess].name = r.name
             /\ \A q \in th.rets : q.name = r.name => q.sess = r.sess

\* two configs were given, two accessor invocations returned copies, and
\* the handler was closed once: both copies are closed once
C35_Witness ==
    /\ th.fn = "MakeContext" /\ th.pc = "made"
    /\ Len(th.cfgs) = 2 /\ th.calls = 2 /\ th.rets # {}
    /\ th.nClose = 1
    /\ \A c \in DOMAIN th.copies : th.copies[c].closed = 1

\* ---------------------------------------------------------- getCallerName
GcnInit ==
    /\ impl = "mgohttp"
    /\ cfg = [database |-> "db1", timeout |-> "50ms",
              errorCode |-> StatusServiceUnavailable]
    /\ baseCtx = [n \in Names |-> "none"]
    /\ IdleRequest
    /\ adm = NoAdmission
    /\ pool = NoPools
    /\ th = NoTest
    /\ gcn \in {NewWalk(st) : st \in Stacks}

\* n := runtime.Callers(0, pc); if n == 0 { return "" }
GcnCallers ==
    /\ gcn.pc = "entry"
    /\ gcn' = IF Len(gcn.stack) = 0
              THEN [gcn EXCEPT !.ret = EmptyName, !.pc = "done"]
              ELSE [gcn EXCEPT !.pc = "loop"]
    /\ UNCHANGED <<cfgVars, reqVars, adm, pool, th>>

\* one iteration of the frame loop
GcnIterate ==
    /\ gcn.pc = "loop"
    /\ LET f == FramesNext(gcn.stack, gcn.pos)
           walked == [gcn EXCEPT !.pos = IF @ < Len(gcn.stack) THEN @ + 1 ELSE @,
                                 !.iters = @ + 1]
       IN  gcn' = IF \/ Contains(f.function, "mgohttp")
                     \/ Contains(f.function, "runtime")
                  THEN walked
                  ELSE IF ~f.more
                  THEN [walked EXCEPT !.ret = DefaultName, !.pc = "done"]
                  ELSE [walked EXCEPT !.ret = f.function, !.pc = "done"]
    /\ UNCHANGED <<cfgVars, reqVars, adm, pool, th>>

GcnNext ==
    \/ GcnCallers
    \/ GcnIterate

\* the goroutine running getCallerName keeps running
GcnSpec == GcnInit /\ [][GcnNext]_vars /\ WF_vars(GcnNext)

\* ------------------------------------------------------------------- C36
\* a frame that the loop returns: its name contains neither word and it is
\* not the last frame
Eligible(stack) ==
    {i \in DOMAIN stack :
        /\ ~Contains(stack[i], "mgohttp")
        /\ ~Contains(stack[i], "runtime")
        /\ i < Len(stack)}

\* the name the claim describes for a stack
CallerNameOf(stack) ==
    IF stack = <<>> THEN EmptyName
    ELSE IF Eligible(stack) = {} THEN DefaultName
    ELSE stack[CHOOSE i \in Eligible(stack) : \A j \in Eligible(stack) : i <= j]

\* C36: getCallerName terminates on every call stack: the frame loop makes
\* at most one iteration more than there are frames, and the call returns
\* the empty string when there is no frame, else the name of the first
\* frame that contains neither "mgohttp" nor "runtime" and is not the last
\* frame, else "mgohttp-default-fn".
C36_GetCallerNameTerminates ==
    /\ <>(gcn.pc = "done")
    /\ [](gcn.iters <= Len(gcn.stack) + 1)
    /\ [](gcn.pc = "done" => gcn.ret = CallerNameOf(gcn.stack))

\* the walk ended on the fallback after it skipped a last frame of the
\* runtime and read past the end of the frames
C36_Witness ==
    /\ gcn.pc = "done"
    /\ gcn.ret = DefaultName
    /\ Len(gcn.stack) = MaxFrames
    /\ Contains(gcn.stack[Len(gcn.stack)], "runtime")
    /\ gcn.iters = Len(gcn.stack) + 1

=============================================================================
